---- MODULE Spec2Model ----
(***************************************************************************)
(* Decision pipeline of the pet world: the LLM scheduler (stimulus gate,   *)
(* bounded-concurrency FIFO dispatch), the location graph (movePet), the   *)
(* message bus and the autonomous tick that ties them together.            *)
(***************************************************************************)
EXTENDS Integers, Sequences, FiniteSets, TLC

VARIABLES
    queue,            \* llm-scheduler: pending items, oldest first
    activeRequests,   \* llm-scheduler: dispatched and not yet finished
    reqState,         \* per request: none / queued / dispatched / completed / failed
    calls,            \* per request: invocations of the generation collaborator
    dispatchLog,      \* request ids in the order processQueue dispatched them
    gateIn,           \* hasStimulus: the options and the Math.random() draw
    gateOut,          \* hasStimulus: the value returned, "none" before the call
    pet_state,        \* table pet_state: row present, location_id, current_action
    activityLog,      \* table pet_activity_log, oldest first
    lastCall,         \* the operation that ran last and what it returned
    petStats,         \* table pets: energy and hunger of each pet
    messages,         \* table pet_messages, oldest first
    passes,           \* the runs of the tick loop: position and awaited call
    memoryCalls,      \* chat() calls of createConversationMemory in flight
    recv,             \* message-bus: rows and limit of the last read call
    returned,         \* per row of pet_messages: the read calls that returned it
    memory_summary,   \* pets.memory_summary: its lines, each with day, length, marker
    logLine,          \* per pet: length of the daily line its last 50 log rows give
    today,            \* the day of new Date()
    soul_json,        \* pets.soul_json of one pet: the stored PetSoul
    socialCount,      \* evolveSoul: the social entries its last run counted
    text,             \* safety-guard: the text of an LLM reply, as a sequence of atoms
    filtered,         \* safety-guard: whether safetyFilter has run, and what it returned
    response,         \* executeResponse: the filtered text, as a sequence of atoms
    recognised,       \* executeResponse: whether it has run, and the form it executed
    social_memory,    \* table pet_social_memory: first_meet rows per pet and target
    tierQueue,        \* llm-scheduler: the requests waiting, with priority and model
    sentModels,       \* llm-scheduler: per executed request, the model it was sent to
    context,          \* memory: pet and sections of the last buildMemoryContext call
    friends,          \* table friends: the friends of pet 1
    pet_insights,     \* table pet_insights: the number of insights of pet 1
    petRow,           \* table pets: mood, energy, hunger and affection of one pet
    staleRow,         \* the rows read before an await by chat() and by the social chat
    statOps,          \* the number of writes to the stats so far
    seenOthers        \* per pet: the other pets at its location at its previous tick

schedVars == <<queue, activeRequests, reqState, calls, dispatchLog>>

gateVars == <<gateIn, gateOut>>

worldVars == <<pet_state, activityLog, lastCall>>

tickVars == <<petStats, messages, passes, memoryCalls>>

busVars == <<recv, returned>>

memVars == <<memory_summary, logLine, today>>

soulVars == <<soul_json, socialCount>>

filterVars == <<text, filtered>>

parseVars == <<response, recognised>>

socialVars == <<social_memory>>

tierVars == <<tierQueue, sentModels>>

ctxVars == <<context, friends, pet_insights>>

statVars == <<petRow, staleRow, statOps>>

histVars == <<seenOthers>>

lateVars == <<parseVars, socialVars, tierVars, ctxVars, statVars, histVars>>

extVars == <<busVars, memVars, soulVars, filterVars, lateVars>>

vars == <<schedVars, gateVars, worldVars, tickVars, extVars>>

-----------------------------------------------------------------------------
(* Bounds of the model *)

MaxReq == 12

MaxFail == 1

MaxUnread == 2

NumPets == 3

MaxLog == 3

HubCapacity == 3

ParkCapacity == 2

LakeCapacity == 1

MaxPasses == 1

MaxThinks == 2

CallMaxThinks == 6

CallMaxLog == 5

CallMaxMsgs == 10

CallMaxMem == 10

MaxMsgs == 2

MaxMemCalls == 2

BusMaxMsgs == 2

MaxLimit == 2

MaxReturns == 2

MaxDays == 2

MaxMemPets == 1

MaxVersion == 7

MaxTextLen == 4

MaxRespLen == 4

MaxTierReqs == 2

CtxMaxLog == 11

MaxStatOps == 3

MaxOverlap == 2

(* Program constants *)

MAX_CONCURRENT == 10

DEFAULT_ENERGY == 80

DEFAULT_HUNGER == 50

LOW_STAT == 20

RANDOM_CHANCE == 15

INBOX_LIMIT == 5

BROADCAST_LIMIT == 5

SUMMARY_BUDGET == 500

RECENT_LIMIT == 10

SOCIAL_LIMIT == 5

SUMMARY_KEEP == 497

ELLIPSIS_LEN == 3

MARKER_LEN == 13

-----------------------------------------------------------------------------
(* llm-scheduler *)

ReqIds == 1..MaxReq

ThinkingPriority == {"low", "medium", "high", "critical"}

Terminal == {"completed", "failed"}

\* Position of the item processQueue would take if it served the highest
\* priority first instead of the oldest.
PriorityRank(p) ==
    CASE p = "critical" -> 4 [] p = "high" -> 3 [] p = "medium" -> 2 [] OTHER -> 1

BestIndex(q) ==
    CHOOSE k \in 1..Len(q) :
        \A j \in 1..Len(q) :
            \/ PriorityRank(q[k].priority) > PriorityRank(q[j].priority)
            \/ (PriorityRank(q[k].priority) = PriorityRank(q[j].priority) /\ k <= j)

Without(q, k) == [j \in 1..(Len(q) - 1) |-> IF j < k THEN q[j] ELSE q[j + 1]]

\* processQueue without the capacity test: every queued item is started.
RECURSIVE processQueue_noCapacity(_, _, _)
processQueue_noCapacity(q, active, taken) ==
    IF Len(q) > 0
    THEN processQueue_noCapacity(Tail(q), active + 1, Append(taken, Head(q)))
    ELSE [queue |-> q, active |-> active, taken |-> taken]

\* processQueue with the capacity test off by one (<= for <).
RECURSIVE processQueue_offByOne(_, _, _)
processQueue_offByOne(q, active, taken) ==
    IF Len(q) > 0 /\ active <= MAX_CONCURRENT
    THEN processQueue_offByOne(Tail(q), active + 1, Append(taken, Head(q)))
    ELSE [queue |-> q, active |-> active, taken |-> taken]

\* processQueue serving the highest priority first.
RECURSIVE processQueue_byPriority(_, _, _)
processQueue_byPriority(q, active, taken) ==
    IF Len(q) > 0 /\ active < MAX_CONCURRENT
    THEN processQueue_byPriority(Without(q, BestIndex(q)), active + 1,
                                 Append(taken, q[BestIndex(q)]))
    ELSE [queue |-> q, active |-> active, taken |-> taken]

\* while (queue.length > 0 && activeRequests < MAX_CONCURRENT) { shift; activeRequests++ }
\* Returns what is left of the queue, the new activeRequests and the items
\* taken, in the order they were taken.
RECURSIVE processQueue(_, _, _)
processQueue(q, active, taken) ==
    IF Len(q) > 0 /\ active < MAX_CONCURRENT
    THEN processQueue(Tail(q), active + 1, Append(taken, Head(q)))
    ELSE [queue |-> q, active |-> active, taken |-> taken]

IdsOf(taken) == [i \in 1..Len(taken) |-> taken[i].id]

\* executeLLMCall(item.req) is started for every item taken.
RECURSIVE MarkDispatched(_, _)
MarkDispatched(states, taken) ==
    IF taken = <<>> THEN states
    ELSE MarkDispatched([states EXCEPT ![Head(taken).id] = "dispatched"], Tail(taken))

RECURSIVE CountCalls(_, _)
CountCalls(c, taken) ==
    IF taken = <<>> THEN c
    ELSE CountCalls([c EXCEPT ![Head(taken).id] = @ + 1], Tail(taken))

\* The effect on the scheduler state of running processQueue on (q, active):
\* every taken item is dispatched and executeLLMCall is invoked for it once.
RunQueueResult(r, states) ==
    /\ queue' = r.queue
    /\ activeRequests' = r.active
    /\ reqState' = MarkDispatched(states, r.taken)
    /\ calls' = CountCalls(calls, r.taken)
    /\ dispatchLog' = dispatchLog \o IdsOf(r.taken)

RunQueue(q, active, states) ==
    RunQueueResult(processQueue(q, active, <<>>), states)

\* think(req) that pushes the item and leaves the queue to the next completion.
Submit_pushOnly(id, priority) ==
    /\ queue' = Append(queue, [id |-> id, priority |-> priority])
    /\ reqState' = [reqState EXCEPT ![id] = "queued"]
    /\ UNCHANGED <<activeRequests, calls, dispatchLog>>

\* think(req): queue.push, then processQueue()
Submit(id, priority) ==
    RunQueue(Append(queue, [id |-> id, priority |-> priority]),
             activeRequests,
             [reqState EXCEPT ![id] = "queued"])

\* Settle without activeRequests--: the slot taken at dispatch is kept.
Settle_keepsSlot(id, outcome) ==
    RunQueue(queue, activeRequests, [reqState EXCEPT ![id] = outcome])

\* Settle without the processQueue() call of .finally: the slot is released
\* but nothing queued is woken.
Settle_noWakeup(id, outcome) ==
    /\ queue' = queue
    /\ activeRequests' = activeRequests - 1
    /\ reqState' = [reqState EXCEPT ![id] = outcome]
    /\ UNCHANGED <<calls, dispatchLog>>

\* Settle that puts a failed request back on the queue (retry on failure).
Settle_retry(id, outcome) ==
    IF outcome = "failed"
    THEN RunQueue(Append(queue, [id |-> id, priority |-> "low"]),
                  activeRequests - 1,
                  [reqState EXCEPT ![id] = "queued"])
    ELSE RunQueue(queue, activeRequests - 1, [reqState EXCEPT ![id] = outcome])

\* The promise chain of one dispatched item: .then(resolve) or .catch(reject),
\* then .finally: activeRequests--, processQueue()
Settle(id, outcome) ==
    RunQueue(queue, activeRequests - 1, [reqState EXCEPT ![id] = outcome])

NextId(id) ==
    /\ reqState[id] = "none"
    /\ \A j \in ReqIds : j < id => reqState[j] # "none"

Think(id, priority) ==
    /\ NextId(id)
    /\ Submit(id, priority)
    /\ UNCHANGED <<gateVars, extVars, worldVars, tickVars>>

Complete(id) ==
    /\ reqState[id] = "dispatched"
    /\ Settle(id, "completed")
    /\ UNCHANGED <<gateVars, extVars, worldVars, tickVars>>

FailedIds == {i \in ReqIds : reqState[i] = "failed"}

Fail(id) ==
    /\ reqState[id] = "dispatched"
    /\ Cardinality(FailedIds) < MaxFail
    /\ Settle(id, "failed")
    /\ UNCHANGED <<gateVars, extVars, worldVars, tickVars>>

SchedIdle ==
    /\ queue = <<>>
    /\ activeRequests = 0
    /\ reqState = [i \in ReqIds |-> "none"]
    /\ calls = [i \in ReqIds |-> 0]
    /\ dispatchLog = <<>>

GateIdle ==
    /\ gateIn = [unreadMessages |-> 0, nearbyPetChanged |-> FALSE, newEvent |-> FALSE,
                 lowStats |-> FALSE, randomChance |-> 0, draw |-> 0]
    /\ gateOut = "none"

NoCall == [op |-> "none", pet |-> 0, arg |-> "none", ok |-> FALSE, reason |-> "none"]

NoRow == [row |-> FALSE, location_id |-> "hub", current_action |-> "idle"]

WorldEmpty ==
    /\ pet_state = [p \in 1..NumPets |-> NoRow]
    /\ activityLog = <<>>
    /\ lastCall = NoCall

NoPass == [pc |-> "idle", idx |-> 0, req |-> 0, loc |-> "none", target |-> 0, inbox |-> {}]

TickIdle ==
    /\ petStats = [p \in 1..NumPets |-> [energy |-> DEFAULT_ENERGY, hunger |-> DEFAULT_HUNGER]]
    /\ messages = <<>>
    /\ passes = [k \in 1..MaxPasses |-> NoPass]
    /\ memoryCalls = 0

NoRecv == [rows |-> {}, limit |-> 0, all |-> FALSE]

BusIdle ==
    /\ recv = NoRecv
    /\ returned = <<>>

\* No row of pet_activity_log for the pet.
NoRows == -1

MemIdle ==
    /\ memory_summary = [p \in 1..NumPets |-> <<>>]
    /\ logLine = [p \in 1..NumPets |-> NoRows]
    /\ today = 1

\* generateSoul() with every rand(min, max) at its maximum.
SoulAtMax ==
    [version |-> 1,
     traits |-> [curiosity |-> 90, playfulness |-> 90, sociability |-> 85,
                 independence |-> 70, emotionality |-> 90, gentleness |-> 85],
     likes |-> <<>>,
     favoritePlace |-> "null",
     evolutionLog |-> <<[change |-> {"birth"}]>>]

SoulIdle ==
    /\ soul_json = SoulAtMax
    /\ socialCount = 0

Unfiltered == [done |-> FALSE, out |-> <<>>]

FilterIdle ==
    /\ text = <<>>
    /\ filtered = Unfiltered

Unrecognised == [done |-> FALSE, form |-> "none"]

ParseIdle ==
    /\ response = <<>>
    /\ recognised = Unrecognised

SocialIdle == social_memory = [a \in 1..NumPets |-> [b \in 1..NumPets |-> 0]]

TierIdle ==
    /\ tierQueue = <<>>
    /\ sentModels = <<>>

NoContext == [done |-> FALSE, pet |-> 0, sections |-> <<>>]

CtxIdle ==
    /\ context = NoContext
    /\ friends = {}
    /\ pet_insights = 0

DEFAULT_MOOD == 70

DEFAULT_AFFECTION == 30

\* The column defaults of the pets table.
DefaultRow ==
    [mood |-> DEFAULT_MOOD, energy |-> DEFAULT_ENERGY, hunger |-> DEFAULT_HUNGER,
     affection |-> DEFAULT_AFFECTION]

NoStale == -1

StatIdle ==
    /\ petRow = DefaultRow
    /\ staleRow = [chat |-> NoStale, social |-> NoStale]
    /\ statOps = 0

\* No tick of the pet has run yet.
NoTickYet == {0}

HistIdle == seenOthers = [p \in 1..NumPets |-> NoTickYet]

LateIdle == ParseIdle /\ SocialIdle /\ TierIdle /\ CtxIdle /\ StatIdle /\ HistIdle

ExtIdle == BusIdle /\ MemIdle /\ SoulIdle /\ FilterIdle /\ LateIdle

SchedInit ==
    /\ SchedIdle
    /\ ExtIdle
    /\ GateIdle
    /\ WorldEmpty
    /\ TickIdle

SchedNext ==
    \/ \E id \in ReqIds, p \in ThinkingPriority : Think(id, p)
    \/ \E id \in ReqIds : Complete(id)
    \/ \E id \in ReqIds : Fail(id)

SchedSpec == SchedInit /\ [][SchedNext]_vars

\* Every generation call eventually returns (with a result or an error).
SchedFairSpec ==
    SchedSpec /\ WF_vars(\E id \in ReqIds : Complete(id) \/ Fail(id))

-----------------------------------------------------------------------------
(* Claims about the scheduler *)

Submitted == {i \in ReqIds : reqState[i] # "none"}

Dispatched == {i \in ReqIds : reqState[i] = "dispatched"}

QueuedIds == {queue[k].id : k \in 1..Len(queue)}

\* C1: in every reachable state the number of requests dispatched and not yet
\* finished, and the counter activeRequests, are at most MAX_CONCURRENT (10).
C1_ActiveAtMostCapacity ==
    /\ activeRequests <= MAX_CONCURRENT
    /\ Cardinality(Dispatched) <= MAX_CONCURRENT

C1_Witness ==
    /\ activeRequests = MAX_CONCURRENT
    /\ Len(queue) > 0

\* C3: N > 10 submissions to an idle scheduler leave exactly 10 dispatched and
\* N - 10 queued; each completion or failure of a dispatched request dispatches
\* exactly one queued request (the oldest); and, every call eventually
\* returning, every submitted request eventually completes or fails.
C3_Burst ==
    LET n == Cardinality(Submitted) IN
    (n > MAX_CONCURRENT /\ \A i \in Submitted : reqState[i] \notin Terminal)
        => /\ Cardinality(Dispatched) = MAX_CONCURRENT
           /\ Len(queue) = n - MAX_CONCURRENT

C3_Step ==
    \A i \in ReqIds :
        (reqState[i] = "dispatched" /\ reqState'[i] \in Terminal /\ Len(queue) > 0)
            => /\ queue' = Tail(queue)
               /\ reqState'[Head(queue).id] = "dispatched"
               /\ Cardinality({j \in ReqIds : reqState[j] = "queued"
                                               /\ reqState'[j] = "dispatched"}) = 1

Pending == {i \in Submitted : reqState[i] \notin Terminal}

\* Again and again nothing submitted is left pending: a request that is pending
\* now is terminal in the drained state that follows.
C3_NoneLost == []<>(Pending = {})

C3_BurstThenDrain == []C3_Burst /\ [][C3_Step]_vars /\ C3_NoneLost

C3_Witness ==
    /\ Cardinality(Submitted) = MAX_CONCURRENT + 2
    /\ \A i \in ReqIds : reqState[i] \in Terminal
    /\ \E i \in ReqIds : reqState[i] = "failed"


\* C4: requests are dispatched in submission order: the dispatch order is
\* ascending in submission number, and no request is dispatched while a request
\* submitted earlier is still queued, whatever their priorities.
C4_FifoDispatch ==
    /\ \A a, b \in 1..Len(dispatchLog) : a < b => dispatchLog[a] < dispatchLog[b]
    /\ \A i, j \in ReqIds :
          (i < j /\ reqState[i] = "queued") => reqState[j] \in {"none", "queued"}

\* The queue was served while a critical request waited in it: the request
\* at its head left first and the critical one, submitted later, is still queued.
C4_Witness ==
    /\ Len(queue) > 0
    /\ Head(queue).priority = "critical"
    /\ Len(dispatchLog) = MAX_CONCURRENT + 1
    /\ \E i \in ReqIds : reqState[i] \in Terminal

\* C5: a request is invoked exactly once from its dispatch on and never before;
\* a failed or completed request keeps its state: it is never queued or
\* dispatched again and its call is never repeated.
C5_Once ==
    \A i \in ReqIds :
        /\ reqState[i] \in {"none", "queued"} => calls[i] = 0
        /\ reqState[i] \in {"dispatched", "completed", "failed"} => calls[i] = 1

C5_TerminalStays ==
    \A i \in ReqIds :
        reqState[i] \in Terminal => (reqState'[i] = reqState[i] /\ calls'[i] = calls[i])

C5_ExactlyOneInvocation == []C5_Once /\ [][C5_TerminalStays]_vars

C5_Witness ==
    /\ \E i \in ReqIds : reqState[i] = "failed" /\ calls[i] = 1
    /\ \E i \in ReqIds : reqState[i] = "completed" /\ calls[i] = 1
    /\ Len(dispatchLog) > MAX_CONCURRENT

-----------------------------------------------------------------------------
(* llm-scheduler: the stimulus gate *)

\* randomChance and the Math.random() draw, in hundredths. The tick passes 0.15;
\* a draw is in [0, 1).
Chances == {0, 15, 100}

Draws == {0, 14, 15, 99}

GateInputs ==
    [unreadMessages : 0..MaxUnread, nearbyPetChanged : BOOLEAN, newEvent : BOOLEAN,
     lowStats : BOOLEAN, randomChance : Chances, draw : Draws]

\* hasStimulus without the lowStats test.
hasStimulus_noLowStats(opts) ==
    IF opts.unreadMessages > 0 THEN TRUE
    ELSE IF opts.nearbyPetChanged THEN TRUE
    ELSE IF opts.newEvent THEN TRUE
    ELSE IF opts.draw < opts.randomChance THEN TRUE
    ELSE FALSE

\* hasStimulus without the unreadMessages test.
hasStimulus_noUnread(opts) ==
    IF opts.nearbyPetChanged THEN TRUE
    ELSE IF opts.newEvent THEN TRUE
    ELSE IF opts.lowStats THEN TRUE
    ELSE IF opts.draw < opts.randomChance THEN TRUE
    ELSE FALSE

hasStimulus(opts) ==
    IF opts.unreadMessages > 0 THEN TRUE
    ELSE IF opts.nearbyPetChanged THEN TRUE
    ELSE IF opts.newEvent THEN TRUE
    ELSE IF opts.lowStats THEN TRUE
    ELSE IF opts.draw < opts.randomChance THEN TRUE
    ELSE FALSE

HasStimulusCall ==
    /\ gateOut = "none"
    /\ gateOut' = IF hasStimulus(gateIn) THEN "true" ELSE "false"
    /\ UNCHANGED <<gateIn, extVars, schedVars, worldVars, tickVars>>

GateInit ==
    /\ SchedIdle
    /\ ExtIdle
    /\ WorldEmpty
    /\ TickIdle
    /\ gateIn \in GateInputs
    /\ gateOut = "none"

GateNext == HasStimulusCall

GateSpec == GateInit /\ [][GateNext]_vars

\* C6: the gate returns true whenever unreadMessages > 0, nearbyPetChanged,
\* newEvent or lowStats holds, whatever the draw; when none holds it returns
\* true exactly when the draw is below randomChance.
C6_GateResult ==
    LET any == \/ gateIn.unreadMessages > 0
               \/ gateIn.nearbyPetChanged
               \/ gateIn.newEvent
               \/ gateIn.lowStats
    IN  gateOut # "none" =>
            /\ any => gateOut = "true"
            /\ ~any => (gateOut = "true" <=> gateIn.draw < gateIn.randomChance)

\* Only lowStats holds and the draw fails, and the gate returned true.
C6_Witness ==
    /\ gateOut = "true"
    /\ gateIn.lowStats
    /\ gateIn.unreadMessages = 0 /\ ~gateIn.nearbyPetChanged /\ ~gateIn.newEvent
    /\ gateIn.draw >= gateIn.randomChance

-----------------------------------------------------------------------------
(* locations *)

Pets == 1..NumPets

LocIds == {"hub", "park", "lake"}

\* An id that is in no row of the locations table.
UnknownLoc == "void"

connects_to(loc) ==
    CASE loc = "hub" -> {"park"}
      [] loc = "park" -> {"hub", "lake"}
      [] loc = "lake" -> {"park"}
      [] OTHER -> {}

capacity(loc) ==
    CASE loc = "hub" -> HubCapacity
      [] loc = "park" -> ParkCapacity
      [] OTHER -> LakeCapacity

\* row?.location_id || "hub"
getPetLocationId(ps, p) == IF ps[p].row THEN ps[p].location_id ELSE "hub"

\* pet_state JOIN pets WHERE location_id = ?
getPetsInLocation(ps, loc) == {p \in Pets : ps[p].row /\ ps[p].location_id = loc}

\* INSERT OR IGNORE INTO pet_state (...) VALUES (?, 'room', 160, 180, 'idle', 'hub')
ensureRow(ps, p) ==
    IF ps[p].row THEN ps
    ELSE [ps EXCEPT ![p] = [row |-> TRUE, location_id |-> "hub", current_action |-> "idle"]]

MoveFailed(ps, log, reason) ==
    [ok |-> FALSE, reason |-> reason, pet_state |-> ps, activityLog |-> log]

\* movePet testing the capacity before the connectivity.
movePet_capacityFirst(ps, log, p, dest) ==
    LET ps1 == ensureRow(ps, p)
        cur == getPetLocationId(ps1, p)
    IN  IF dest \notin LocIds THEN MoveFailed(ps1, log, "UnknownLocation")
        ELSE IF cur = dest THEN MoveFailed(ps1, log, "AlreadyThere")
        ELSE IF Cardinality(getPetsInLocation(ps1, dest)) >= capacity(dest)
             THEN MoveFailed(ps1, log, "Full")
        ELSE IF dest \notin connects_to(cur) THEN MoveFailed(ps1, log, "Unreachable")
        ELSE [ok |-> TRUE, reason |-> "ok",
              pet_state |-> [ps1 EXCEPT ![p].location_id = dest],
              activityLog |-> Append(log, [pet_id |-> p, action_type |-> "move",
                                           from |-> cur, to |-> dest, location |-> dest])]

\* movePet with the capacity test off by one (> for >=).
movePet_capacityOffByOne(ps, log, p, dest) ==
    LET ps1 == ensureRow(ps, p)
        cur == getPetLocationId(ps1, p)
    IN  IF dest \notin LocIds THEN MoveFailed(ps1, log, "UnknownLocation")
        ELSE IF cur = dest THEN MoveFailed(ps1, log, "AlreadyThere")
        ELSE IF dest \notin connects_to(cur) THEN MoveFailed(ps1, log, "Unreachable")
        ELSE IF Cardinality(getPetsInLocation(ps1, dest)) > capacity(dest)
             THEN MoveFailed(ps1, log, "Full")
        ELSE [ok |-> TRUE, reason |-> "ok",
              pet_state |-> [ps1 EXCEPT ![p].location_id = dest],
              activityLog |-> Append(log, [pet_id |-> p, action_type |-> "move",
                                           from |-> cur, to |-> dest, location |-> dest])]

\* movePet without the capacity test.
movePet_noCapacity(ps, log, p, dest) ==
    LET ps1 == ensureRow(ps, p)
        cur == getPetLocationId(ps1, p)
    IN  IF dest \notin LocIds THEN MoveFailed(ps1, log, "UnknownLocation")
        ELSE IF cur = dest THEN MoveFailed(ps1, log, "AlreadyThere")
        ELSE IF dest \notin connects_to(cur) THEN MoveFailed(ps1, log, "Unreachable")
        ELSE [ok |-> TRUE, reason |-> "ok",
              pet_state |-> [ps1 EXCEPT ![p].location_id = dest],
              activityLog |-> Append(log, [pet_id |-> p, action_type |-> "move",
                                           from |-> cur, to |-> dest, location |-> dest])]

\* movePet(petId, destinationId): the MoveResult and the tables after the call.
movePet(ps, log, p, dest) ==
    LET ps1 == ensureRow(ps, p)
        cur == getPetLocationId(ps1, p)
    IN  IF dest \notin LocIds THEN MoveFailed(ps1, log, "UnknownLocation")
        ELSE IF cur = dest THEN MoveFailed(ps1, log, "AlreadyThere")
        ELSE IF dest \notin connects_to(cur) THEN MoveFailed(ps1, log, "Unreachable")
        ELSE IF Cardinality(getPetsInLocation(ps1, dest)) >= capacity(dest)
             THEN MoveFailed(ps1, log, "Full")
        ELSE [ok |-> TRUE, reason |-> "ok",
              pet_state |-> [ps1 EXCEPT ![p].location_id = dest],
              activityLog |-> Append(log, [pet_id |-> p, action_type |-> "move",
                                           from |-> cur, to |-> dest, location |-> dest])]

MoveCall(p, dest, r) ==
    /\ pet_state' = r.pet_state
    /\ activityLog' = r.activityLog
    /\ lastCall' = [op |-> "movePet", pet |-> p, arg |-> dest, ok |-> r.ok,
                    reason |-> r.reason]

MovePet(p, dest) ==
    /\ Len(activityLog) < MaxLog
    /\ MoveCall(p, dest, movePet(pet_state, activityLog, p, dest))
    /\ UNCHANGED <<schedVars, gateVars, extVars, tickVars>>

MoveInit ==
    /\ SchedIdle
    /\ ExtIdle
    /\ GateIdle
    /\ WorldEmpty
    /\ TickIdle

MoveNext == \E p \in Pets, dest \in LocIds \cup {UnknownLoc} : MovePet(p, dest)

MoveSpec == MoveInit /\ [][MoveNext]_vars

-----------------------------------------------------------------------------
(* Claims about movePet *)

MoveStep == lastCall'.op = "movePet"

Occupants(ps, loc) == Cardinality(getPetsInLocation(ps, loc))

\* C8: movePet returns the reason of the first failing check, in the order
\* destination exists, destination differs from the current location,
\* destination is adjacent to it, destination has a free place; it succeeds
\* exactly when all four checks pass.
C8_Expected(p, dest) ==
    LET cur == getPetLocationId(pet_state, p) IN
    IF dest \notin LocIds THEN "UnknownLocation"
    ELSE IF dest = cur THEN "AlreadyThere"
    ELSE IF dest \notin connects_to(cur) THEN "Unreachable"
    ELSE IF Occupants(pet_state, dest) >= capacity(dest) THEN "Full"
    ELSE "ok"

C8_FirstFailingCheck ==
    [][MoveStep =>
        /\ lastCall'.reason = C8_Expected(lastCall'.pet, lastCall'.arg)
        /\ lastCall'.ok <=> (lastCall'.reason = "ok")]_vars

\* A move into a full location that is not adjacent was answered Unreachable.
C8_Witness ==
    /\ lastCall.op = "movePet"
    /\ lastCall.reason = "Unreachable"
    /\ lastCall.arg \in LocIds
    /\ Occupants(pet_state, lastCall.arg) >= capacity(lastCall.arg)

\* C9: after a successful move the destination holds at most its capacity,
\* the agent is at the destination, and exactly one entry recording origin and
\* destination was appended to the activity log.
C9_SuccessfulMove ==
    [][(MoveStep /\ lastCall'.ok) =>
        LET p == lastCall'.pet
            dest == lastCall'.arg
        IN  /\ Occupants(pet_state', dest) <= capacity(dest)
            /\ getPetLocationId(pet_state', p) = dest
            /\ pet_state'[p].row
            /\ activityLog' = Append(activityLog,
                   [pet_id |-> p, action_type |-> "move",
                    from |-> getPetLocationId(pet_state, p), to |-> dest,
                    location |-> dest])]_vars

\* The move that filled the destination succeeded.
C9_Witness ==
    /\ lastCall.op = "movePet"
    /\ lastCall.ok
    /\ Occupants(pet_state, lastCall.arg) = capacity(lastCall.arg)
    /\ getPetLocationId(pet_state, lastCall.pet) = lastCall.arg

\* C10: a move that fails changes nothing: the location of every agent, the
\* occupants of every location and the activity log are as before the call,
\* also for an agent that has no pet_state row yet.
C10_FailedMoveChangesNothing ==
    [][(MoveStep /\ ~lastCall'.ok) =>
        /\ \A p \in Pets : getPetLocationId(pet_state', p) = getPetLocationId(pet_state, p)
        /\ \A loc \in LocIds : getPetsInLocation(pet_state', loc) = getPetsInLocation(pet_state, loc)
        /\ activityLog' = activityLog]_vars

\* The move before this step succeeded and took the last free place of its
\* destination; this step is a move of another pet into the same destination
\* from a location connected to it.
SecondMoveStep ==
    /\ lastCall.op = "movePet"
    /\ lastCall.ok
    /\ Occupants(pet_state, lastCall.arg) = capacity(lastCall.arg)
    /\ MoveStep
    /\ lastCall'.arg = lastCall.arg
    /\ lastCall'.pet # lastCall.pet
    /\ lastCall.arg \in connects_to(getPetLocationId(pet_state, lastCall'.pet))

\* C11 as stated: of two moves by different agents into a destination with one
\* free place both pass the capacity check and both succeed, which leaves the
\* destination with capacity + 1 occupants.
C11_BothMovesSucceed ==
    [][SecondMoveStep =>
        /\ lastCall'.ok
        /\ Occupants(pet_state', lastCall'.arg) = capacity(lastCall'.arg) + 1]_vars

\* C11 as amended: movePet runs from its capacity check to its write without
\* yielding, so of two moves into a destination with one free place the second
\* is refused as Full and the destination stays at its capacity; no successful
\* move brings a location from within its capacity to above it.
C11_SecondMoveRefused ==
    [][/\ SecondMoveStep =>
            /\ ~lastCall'.ok
            /\ lastCall'.reason = "Full"
            /\ Occupants(pet_state', lastCall'.arg) = capacity(lastCall'.arg)
       /\ (MoveStep /\ lastCall'.ok) =>
            \A loc \in LocIds :
                Occupants(pet_state, loc) <= capacity(loc)
                    => Occupants(pet_state', loc) <= capacity(loc)]_vars

\* A move was refused as Full right after the move of another pet, the last
\* row of the log, had filled the destination.
C11_Witness ==
    /\ lastCall.op = "movePet"
    /\ lastCall.reason = "Full"
    /\ Occupants(pet_state, lastCall.arg) = capacity(lastCall.arg)
    /\ activityLog # <<>>
    /\ activityLog[Len(activityLog)].action_type = "move"
    /\ activityLog[Len(activityLog)].to = lastCall.arg
    /\ activityLog[Len(activityLog)].pet_id # lastCall.pet

-----------------------------------------------------------------------------
(* message-bus *)

\* The n most recent rows among the row numbers S (ORDER BY created_at DESC LIMIT n).
MostRecent(S, n) == {i \in S : Cardinality({j \in S : j > i}) < n}

sendMessage(msgs, from, to) ==
    Append(msgs, [from_pet_id |-> from, to_pet_id |-> to, channel |-> "direct",
                  location |-> "none", read |-> FALSE, age |-> "fresh"])

broadcastMessage(msgs, from, loc) ==
    Append(msgs, [from_pet_id |-> from, to_pet_id |-> 0, channel |-> "broadcast",
                  location |-> loc, read |-> FALSE, age |-> "fresh"])

\* receiveMessages without the UPDATE that sets read_at.
receiveMessages_noMark(msgs, p, limit) ==
    LET direct == MostRecent({i \in 1..Len(msgs) :
                                 /\ msgs[i].to_pet_id = p
                                 /\ ~msgs[i].read
                                 /\ msgs[i].channel = "direct"}, limit)
    IN  [rows |-> direct, messages |-> msgs]

\* receiveMessages(petId, limit): the rows returned and the table with them marked read.
receiveMessages(msgs, p, limit) ==
    LET direct == MostRecent({i \in 1..Len(msgs) :
                                 /\ msgs[i].to_pet_id = p
                                 /\ ~msgs[i].read
                                 /\ msgs[i].channel = "direct"}, limit)
    IN  [rows |-> direct,
         messages |-> [i \in 1..Len(msgs) |->
                          IF i \in direct THEN [msgs[i] EXCEPT !.read = TRUE] ELSE msgs[i]]]

\* getLocationBroadcasts without the from_pet_id != ? test.
getLocationBroadcasts_noExclude(msgs, loc, exclude, limit) ==
    MostRecent({i \in 1..Len(msgs) :
                   /\ msgs[i].channel = "broadcast"
                   /\ msgs[i].location = loc
                   /\ msgs[i].age = "fresh"}, limit)

\* getLocationBroadcasts(location, excludePetId, minutes, limit): a row is "fresh"
\* while it is inside the time window and not expired.
getLocationBroadcasts(msgs, loc, exclude, limit) ==
    MostRecent({i \in 1..Len(msgs) :
                   /\ msgs[i].channel = "broadcast"
                   /\ msgs[i].location = loc
                   /\ msgs[i].from_pet_id # exclude
                   /\ msgs[i].age = "fresh"}, limit)

\* getInbox(petId, location, limit) = [...direct, ...broadcasts]
getInbox(msgs, p, loc, limit) ==
    LET r == receiveMessages(msgs, p, limit) IN
    [length |-> Cardinality(r.rows)
                  + Cardinality(getLocationBroadcasts(msgs, loc, p, BROADCAST_LIMIT)),
     direct |-> r.rows,
     messages |-> r.messages]

\* Time passes for row i: a broadcast leaves its window and then expires, a
\* direct message expires; a row is never younger than a row written after it.
NextAge(m) ==
    IF m.channel = "broadcast" /\ m.age = "fresh" THEN "stale" ELSE "expired"

AgeRank(a) == CASE a = "fresh" -> 0 [] a = "stale" -> 1 [] OTHER -> 2

-----------------------------------------------------------------------------
(* autonomous-v2: the tick loop *)

PassIds == 1..MaxPasses

NoName == 0

PetName(p) == p

LocName(loc) == loc

\* What executeResponse recognises in the filtered text: the form that matches
\* and the name it carries.
Responses ==
    [kind : {"speak"}, name : Pets \cup {NoName}]
        \cup [kind : {"go"}, name : LocIds \cup {UnknownLoc}]
        \cup [kind : {"broadcast", "act", "thought", "free"}, name : {"none"}]

SpeakResponses == [kind : {"speak"}, name : Pets]

classifyPriority(trigger) ==
    CASE trigger \in {"user_chat", "first_meeting"} -> "high"
      [] trigger \in {"evolution", "reflection"} -> "critical"
      [] trigger \in {"social_chat", "autonomous", "message_reply"} -> "medium"
      [] OTHER -> "low"

FreeId == CHOOSE id \in ReqIds : NextId(id)

\* Room in the bounded tables for what a response writes.
Room(caps, logRows, msgRows, memCalls) ==
    /\ Len(activityLog) + logRows <= caps.log
    /\ Len(messages) + msgRows <= caps.msgs
    /\ memoryCalls + memCalls <= caps.mem

TickCaps == [thinks |-> MaxThinks, log |-> MaxLog, msgs |-> MaxMsgs, mem |-> MaxMemCalls]

\* UPDATE pet_state SET current_action = ? WHERE pet_id = ?
updateAction(ps, p, action) ==
    IF ps[p].row THEN [ps EXCEPT ![p].current_action = action] ELSE ps

LogEntry(p, type, loc) ==
    [pet_id |-> p, action_type |-> type, from |-> "none", to |-> "none", location |-> loc]

\* logActivity(petId, type, description)
logActivity(log, ps, p, type) == Append(log, LogEntry(p, type, getPetLocationId(ps, p)))

\* The pass ends with the pet it is at.
Advance_stops(k) == [passes EXCEPT ![k] = NoPass]

\* The for loop of the interval callback goes on to the next pet, or ends.
Advance(k) ==
    IF passes[k].idx < NumPets
    THEN [passes EXCEPT ![k] = [NoPass EXCEPT !.pc = "ready", !.idx = passes[k].idx + 1]]
    ELSE [passes EXCEPT ![k] = NoPass]

\* The interval callback starts a pass over SELECT id FROM pets.
TimerFires(k) ==
    /\ passes[k].pc = "idle"
    /\ \A j \in PassIds : j < k => passes[j].pc # "idle"
    /\ passes' = [passes EXCEPT ![k] = [NoPass EXCEPT !.pc = "ready", !.idx = 1]]
    /\ lastCall' = [NoCall EXCEPT !.op = "timer"]
    /\ UNCHANGED <<schedVars, gateVars, extVars, pet_state, activityLog, petStats, messages,
                   memoryCalls>>

\* nearbyPets.filter(p => p.pet_id !== petId)
otherPetsHere(ps, p) == getPetsInLocation(ps, getPetLocationId(ps, p)) \ {p}

\* nearbyPetChanged: otherPetsHere.length > 0
nearbyPetChanged(ps, seen, p) == otherPetsHere(ps, p) # {}

\* The options autonomousTickV2 hands to hasStimulus.
TickOpts(p, inboxLength, draw) ==
    [unreadMessages |-> inboxLength,
     nearbyPetChanged |-> nearbyPetChanged(pet_state, seenOthers, p),
     newEvent |-> FALSE,
     lowStats |-> petStats[p].energy < LOW_STAT \/ petStats[p].hunger < LOW_STAT,
     randomChance |-> RANDOM_CHANCE,
     draw |-> draw]

\* autonomousTickV2 up to its first await: the inbox is read, the gate is
\* evaluated, and either the tick returns or the request is submitted.
TickBegin(k, draw, caps) ==
    LET p == passes[k].idx
        loc == getPetLocationId(pet_state, p)
        inbox == getInbox(messages, p, loc, INBOX_LIMIT)
        stimulated == hasStimulus(TickOpts(p, inbox.length, draw))
    IN  /\ passes[k].pc = "ready"
        /\ messages' = inbox.messages
        /\ seenOthers' = [seenOthers EXCEPT ![p] = otherPetsHere(pet_state, p)]
        /\ IF stimulated
           THEN /\ \E id \in ReqIds : NextId(id)
                /\ Cardinality(Submitted) < caps.thinks
                /\ Submit(FreeId, IF inbox.length > 0
                                  THEN classifyPriority("message_reply")
                                  ELSE classifyPriority("autonomous"))
                /\ passes' = [passes EXCEPT ![k].pc = "thinking", ![k].req = FreeId,
                                            ![k].loc = loc, ![k].inbox = inbox.direct]
           ELSE /\ passes' = Advance(k)
                /\ UNCHANGED schedVars
        /\ lastCall' = [op |-> "tick", pet |-> p, arg |-> loc, ok |-> stimulated,
                        reason |-> IF stimulated THEN "think" ELSE "skip"]
        /\ UNCHANGED <<gateVars, busVars, memVars, soulVars, filterVars, parseVars, socialVars,
                       tierVars, ctxVars, statVars, pet_state, activityLog, petStats,
                       memoryCalls>>

\* goTo that reports a name without a match and has moved the pet all the same.
goTo_movesAnyway(ps, log, p, destName) ==
    LET cur == getPetLocationId(ps, p)
        matches == {c \in connects_to(cur) : LocName(c) = destName}
        moved == movePet(ps, log, p, CHOOSE c \in connects_to(cur) : TRUE)
    IN  IF cur \notin LocIds THEN MoveFailed(ps, log, "Lost")
        ELSE IF matches = {} THEN MoveFailed(moved.pet_state, log, "NoSuchWay")
        ELSE movePet(ps, log, p, CHOOSE c \in matches : TRUE)

\* goTo(petId, destinationName): the first connection whose name matches, then movePet.
goTo(ps, log, p, destName) ==
    LET cur == getPetLocationId(ps, p)
        matches == {c \in connects_to(cur) : LocName(c) = destName}
    IN  IF cur \notin LocIds THEN MoveFailed(ps, log, "Lost")
        ELSE IF matches = {} THEN MoveFailed(ps, log, "NoSuchWay")
        ELSE movePet(ps, log, p, CHOOSE c \in matches : TRUE)

\* talkToPet up to its await: the target among the pets at the speaker's location.
TalkTargets(ps, p, targetName) ==
    {t \in getPetsInLocation(ps, getPetLocationId(ps, p)) :
        PetName(t) = targetName /\ t # p}

\* The last statement of autonomousTickV2: the autonomous_v2 row, with the
\* location read at the start of the tick.
TickLog(log, k) == Append(log, LogEntry(passes[k].idx, "autonomous_v2", passes[k].loc))

\* The mutant of isFirstMeeting: every meeting is taken for the first.
isFirstMeeting_always(sm, a, b) == TRUE

\* SELECT 1 FROM pet_social_memory WHERE pet_id = ? AND target_pet_id = ? AND
\* memory_type = 'first_meet' finds no row.
isFirstMeeting(sm, a, b) == sm[a][b] = 0

\* INSERT INTO pet_social_memory ... 'first_meet'
recordFirstMeeting(sm, a, b) == [sm EXCEPT ![a][b] = @ + 1]

\* talkToPet before its await: on a first meeting both directions are recorded.
meetFirst(sm, from, target) ==
    IF isFirstMeeting(sm, from, target)
    THEN recordFirstMeeting(recordFirstMeeting(sm, from, target), target, from)
    ELSE sm

\* The request of pass k returns text: the scheduler settles it, then
\* executeResponse runs to its end or to the await inside talkToPet.
ThinkReturns(k, resp, caps) ==
    LET p == passes[k].idx
        targets == TalkTargets(pet_state, p, resp.name)
        moved == goTo(pet_state, activityLog, p, resp.name)
    IN  /\ passes[k].pc = "thinking"
        /\ reqState[passes[k].req] = "dispatched"
        /\ Settle(passes[k].req, "completed")
        /\ CASE resp.kind = "speak" /\ targets # {} ->
                  /\ Room(caps, 1, 2, 2)
                  /\ passes' = [passes EXCEPT ![k].pc = "replying",
                                              ![k].target = CHOOSE t \in targets : TRUE]
                  /\ social_memory' = meetFirst(social_memory, p, CHOOSE t \in targets : TRUE)
                  /\ UNCHANGED <<pet_state, activityLog, messages>>
             [] resp.kind = "speak" /\ targets = {} ->
                  /\ Room(caps, 1, 0, 0)
                  /\ passes' = Advance(k)
                  /\ activityLog' = TickLog(activityLog, k)
                  /\ UNCHANGED <<pet_state, messages, social_memory>>
             [] resp.kind = "go" ->
                  /\ Room(caps, IF moved.ok THEN 2 ELSE 1, 0, 0)
                  /\ passes' = Advance(k)
                  /\ pet_state' = IF moved.ok THEN updateAction(moved.pet_state, p, "went")
                                  ELSE moved.pet_state
                  /\ activityLog' = TickLog(moved.activityLog, k)
                  /\ UNCHANGED <<messages, social_memory>>
             [] resp.kind = "broadcast" ->
                  /\ Room(caps, 1, 1, 0)
                  /\ passes' = Advance(k)
                  /\ messages' = broadcastMessage(messages, p, getPetLocationId(pet_state, p))
                  /\ pet_state' = updateAction(pet_state, p, "said")
                  /\ activityLog' = TickLog(activityLog, k)
                  /\ UNCHANGED social_memory
             [] OTHER ->
                  /\ Room(caps, 2, 0, 0)
                  /\ passes' = Advance(k)
                  /\ pet_state' = updateAction(pet_state, p, resp.kind)
                  /\ activityLog' = TickLog(logActivity(activityLog, pet_state, p,
                                        IF resp.kind = "act" THEN "action" ELSE resp.kind), k)
                  /\ UNCHANGED <<messages, social_memory>>
        /\ lastCall' = [op |-> "thinkReturns", pet |-> p, arg |-> resp.kind, ok |-> TRUE,
                        reason |-> CASE resp.kind = "speak" /\ targets = {} -> "NotNearby"
                                     [] resp.kind = "go" -> moved.reason
                                     [] OTHER -> "none"]
        /\ UNCHANGED <<gateVars, busVars, memVars, soulVars, filterVars, parseVars, tierVars,
                       ctxVars, statVars, histVars, petStats, memoryCalls>>

\* The request of pass k fails, and the tick still writes its autonomous_v2 row.
ThinkFails_logs(k) ==
    /\ passes[k].pc = "thinking"
    /\ reqState[passes[k].req] = "dispatched"
    /\ Cardinality(FailedIds) < MaxFail
    /\ Len(activityLog) < MaxLog
    /\ Settle(passes[k].req, "failed")
    /\ passes' = Advance(k)
    /\ activityLog' = TickLog(activityLog, k)
    /\ lastCall' = [op |-> "thinkFails", pet |-> passes[k].idx, arg |-> "none",
                    ok |-> FALSE, reason |-> "none"]
    /\ UNCHANGED <<gateVars, extVars, pet_state, petStats, messages, memoryCalls>>

\* The request of pass k fails: the tick logs the error and returns.
ThinkFails(k) ==
    /\ passes[k].pc = "thinking"
    /\ reqState[passes[k].req] = "dispatched"
    /\ Cardinality(FailedIds) < MaxFail
    /\ Settle(passes[k].req, "failed")
    /\ passes' = Advance(k)
    /\ lastCall' = [op |-> "thinkFails", pet |-> passes[k].idx, arg |-> "none",
                    ok |-> FALSE, reason |-> "none"]
    /\ UNCHANGED <<gateVars, extVars, pet_state, activityLog, petStats, messages, memoryCalls>>

\* chatAsPetWithModel(target) inside talkToPet returns: both messages are
\* stored, two createConversationMemory calls are started and not awaited,
\* the speaker's action is updated and the tick writes its row.
ReplyReturns(k) ==
    LET p == passes[k].idx
        t == passes[k].target
    IN  /\ passes[k].pc = "replying"
        /\ messages' = sendMessage(sendMessage(messages, p, t), t, p)
        /\ memoryCalls' = memoryCalls + 2
        /\ pet_state' = updateAction(pet_state, p, "chat")
        /\ activityLog' = TickLog(activityLog, k)
        /\ passes' = Advance(k)
        /\ lastCall' = [op |-> "replyReturns", pet |-> p, arg |-> "none", ok |-> TRUE,
                        reason |-> "none"]
        /\ UNCHANGED <<schedVars, gateVars, extVars, petStats>>

\* chatAsPetWithModel(target) throws: the error leaves talkToPet,
\* executeResponse and the tick, and the loop's catch takes it.
ReplyFails(k) ==
    /\ passes[k].pc = "replying"
    /\ passes' = Advance(k)
    /\ lastCall' = [op |-> "replyFails", pet |-> passes[k].idx, arg |-> "none",
                    ok |-> FALSE, reason |-> "none"]
    /\ UNCHANGED <<schedVars, gateVars, extVars, pet_state, activityLog, petStats, messages,
                   memoryCalls>>

\* A chat() call of createConversationMemory returns or throws.
MemoryCallReturns ==
    /\ memoryCalls > 0
    /\ memoryCalls' = memoryCalls - 1
    /\ lastCall' = [NoCall EXCEPT !.op = "memoryReturns"]
    /\ UNCHANGED <<schedVars, gateVars, extVars, pet_state, activityLog, petStats, messages, passes>>

\* Time passes for one row of pet_messages.
AgeMessage(i) ==
    /\ messages[i].age # "expired"
    /\ \A j \in 1..Len(messages) :
          (j < i /\ messages[j].channel = messages[i].channel)
              => AgeRank(messages[j].age) >= AgeRank(NextAge(messages[i]))
    /\ messages' = [messages EXCEPT ![i].age = NextAge(messages[i])]
    /\ lastCall' = [NoCall EXCEPT !.op = "age"]
    /\ UNCHANGED <<schedVars, gateVars, extVars, pet_state, activityLog, petStats, passes, memoryCalls>>

\* setPetLocation(petId, location): INSERT OR REPLACE writes a fresh row, whose
\* location_id and current_action are the column defaults.
SetPetLocation(p) ==
    /\ pet_state' = [pet_state EXCEPT ![p] = [row |-> TRUE, location_id |-> "hub",
                                              current_action |-> "idle"]]
    /\ lastCall' = [NoCall EXCEPT !.op = "setPetLocation", !.pet = p]
    /\ UNCHANGED <<schedVars, gateVars, extVars, activityLog, tickVars>>

StatRows == {[energy |-> DEFAULT_ENERGY, hunger |-> DEFAULT_HUNGER],
             [energy |-> LOW_STAT - 1, hunger |-> DEFAULT_HUNGER]}

TickInit ==
    /\ SchedIdle
    /\ ExtIdle
    /\ GateIdle
    /\ WorldEmpty
    /\ petStats \in {st \in [Pets -> StatRows] : \A p \in Pets : p > 1 => st[p] = st[1]}
    /\ messages = <<>>
    /\ passes = [k \in PassIds |-> NoPass]
    /\ memoryCalls = 0

TickNext ==
    \/ \E k \in PassIds : TimerFires(k)
    \/ \E k \in PassIds, draw \in Draws : TickBegin(k, draw, TickCaps)
    \/ \E k \in PassIds, resp \in Responses : ThinkReturns(k, resp, TickCaps)
    \/ \E k \in PassIds : ThinkFails(k)
    \/ \E k \in PassIds : ReplyReturns(k)
    \/ \E k \in PassIds : ReplyFails(k)
    \/ MemoryCallReturns
    \/ \E i \in 1..Len(messages) : AgeMessage(i)
    \/ \E p \in Pets : SetPetLocation(p)

TickSpec == TickInit /\ [][TickNext]_vars

\* The server after the rows of pet_state exist for every pet, all at the hub.
CallCaps ==
    [thinks |-> CallMaxThinks, log |-> CallMaxLog, msgs |-> CallMaxMsgs, mem |-> CallMaxMem]

CallInit ==
    /\ SchedIdle
    /\ ExtIdle
    /\ GateIdle
    /\ pet_state = [p \in Pets |-> [NoRow EXCEPT !.row = TRUE]]
    /\ activityLog = <<>>
    /\ lastCall = NoCall
    /\ TickIdle

CallNext ==
    \/ \E k \in PassIds : TimerFires(k)
    \/ \E k \in PassIds, draw \in Draws : TickBegin(k, draw, CallCaps)
    \/ \E k \in PassIds, resp \in SpeakResponses : ThinkReturns(k, resp, CallCaps)
    \/ \E k \in PassIds : ReplyReturns(k)
    \/ MemoryCallReturns

CallSpec == CallInit /\ [][CallNext]_vars

-----------------------------------------------------------------------------
(* Claims about the tick *)

\* Calls of the generation collaborator that are running: the scheduler's
\* dispatched requests, the replies awaited inside talkToPet, and the chat()
\* calls of createConversationMemory.
RepliesInFlight == Cardinality({k \in PassIds : passes[k].pc = "replying"})

CallsInFlight == activeRequests + RepliesInFlight + memoryCalls

\* C2: at every moment the number of generation calls in flight, counted over
\* all agents and every path that calls the collaborator during a tick, is at
\* most 10.
C2_GlobalCap == CallsInFlight <= MAX_CONCURRENT

SkipStep == lastCall'.op = "tick" /\ ~lastCall'.ok

\* C7: a tick in which the stimulus gate returns false submits no request,
\* makes no generation call, and leaves the message store with its read
\* markers, the activity log, every agent's location and current action
\* unchanged.
C7_SkippedTickCostsNothing ==
    [][SkipStep =>
        /\ UNCHANGED <<queue, activeRequests, reqState, calls, dispatchLog>>
        /\ memoryCalls' = memoryCalls
        /\ \A k \in PassIds :
              passes'[k].pc \in {"thinking", "replying"} => passes'[k] = passes[k]
        /\ messages' = messages
        /\ activityLog' = activityLog
        /\ pet_state' = pet_state]_vars

\* A pet with a pet_state row was skipped while the store held an unread
\* direct message for another pet and the log was not empty.
C7_Witness ==
    /\ lastCall.op = "tick"
    /\ ~lastCall.ok
    /\ pet_state[lastCall.pet].row
    /\ activityLog # <<>>
    /\ \E i \in 1..Len(messages) :
          /\ messages[i].channel = "direct"
          /\ ~messages[i].read
          /\ messages[i].to_pet_id # lastCall.pet

-----------------------------------------------------------------------------
(* message-bus: its calls in any order *)

BusLocs == {"hub", "park"}

Limits == 1..MaxLimit

\* The unread direct messages of pet p.
Unread(msgs, p) ==
    {i \in 1..Len(msgs) : msgs[i].to_pet_id = p /\ ~msgs[i].read /\ msgs[i].channel = "direct"}

\* One more read call returned the rows S.
CountReturns(S) ==
    [i \in 1..Len(returned) |-> IF i \in S THEN returned[i] + 1 ELSE returned[i]]

BusCall(op, p, arg) == [op |-> op, pet |-> p, arg |-> arg, ok |-> TRUE, reason |-> "none"]

SendMessage(from, to) ==
    /\ Len(messages) < BusMaxMsgs
    /\ messages' = sendMessage(messages, from, to)
    /\ returned' = Append(returned, 0)
    /\ lastCall' = BusCall("sendMessage", 0, "none")
    /\ UNCHANGED <<recv, memVars, soulVars, filterVars, lateVars, schedVars, gateVars, pet_state, activityLog, petStats, passes,
                   memoryCalls>>

BroadcastMessage(from, loc) ==
    /\ Len(messages) < BusMaxMsgs
    /\ messages' = broadcastMessage(messages, from, loc)
    /\ returned' = Append(returned, 0)
    /\ lastCall' = BusCall("broadcastMessage", 0, "none")
    /\ UNCHANGED <<recv, memVars, soulVars, filterVars, lateVars, schedVars, gateVars, pet_state, activityLog, petStats, passes,
                   memoryCalls>>

ReceiveMessages(p, limit) ==
    LET r == receiveMessages(messages, p, limit)
    IN  /\ \A i \in r.rows : returned[i] < MaxReturns
        /\ messages' = r.messages
        /\ recv' = [rows |-> r.rows, limit |-> limit, all |-> r.rows = Unread(messages, p)]
        /\ returned' = CountReturns(r.rows)
        /\ lastCall' = BusCall("receiveMessages", p, "none")
        /\ UNCHANGED <<memVars, soulVars, filterVars, lateVars, schedVars, gateVars, pet_state, activityLog, petStats,
                       passes, memoryCalls>>

GetLocationBroadcasts(loc, exclude, limit) ==
    LET rows == getLocationBroadcasts(messages, loc, exclude, limit)
    IN  /\ \A i \in rows : returned[i] < MaxReturns
        /\ recv' = [rows |-> rows, limit |-> limit, all |-> FALSE]
        /\ returned' = CountReturns(rows)
        /\ lastCall' = BusCall("getLocationBroadcasts", exclude, loc)
        /\ UNCHANGED <<messages, memVars, soulVars, filterVars, lateVars, schedVars, gateVars, pet_state, activityLog,
                       petStats, passes, memoryCalls>>

BusInit ==
    /\ SchedIdle
    /\ ExtIdle
    /\ GateIdle
    /\ WorldEmpty
    /\ TickIdle

BusNext ==
    \/ \E from \in Pets, to \in Pets : SendMessage(from, to)
    \/ \E from \in Pets, loc \in BusLocs : BroadcastMessage(from, loc)
    \/ \E p \in Pets, limit \in Limits : ReceiveMessages(p, limit)
    \/ \E loc \in BusLocs, p \in Pets, limit \in Limits : GetLocationBroadcasts(loc, p, limit)
    \/ \E i \in {j \in 1..Len(messages) : messages[j].channel = "broadcast"} : AgeMessage(i)

BusSpec == BusInit /\ [][BusNext]_vars

-----------------------------------------------------------------------------
(* Claims about the message bus *)

RecvStep == lastCall'.op = "receiveMessages"

\* C12: each direct message is returned by at most one receiveMessages call: a
\* returned message was unread, is marked read and is in no later result; a
\* second receiveMessages for the same pet right after one that returned all of
\* its unread messages returns none.
C12_SingleRead ==
    [][/\ \A i \in 1..Len(messages') :
             messages'[i].channel = "direct" => returned'[i] <= 1
       /\ RecvStep =>
             /\ \A i \in recv'.rows :
                   /\ messages[i].to_pet_id = lastCall'.pet
                   /\ messages[i].channel = "direct"
                   /\ ~messages[i].read
                   /\ messages'[i].read
             /\ \A i \in 1..Len(messages) : messages[i].read => messages'[i].read
       /\ (/\ RecvStep
           /\ lastCall.op = "receiveMessages"
           /\ lastCall.pet = lastCall'.pet
           /\ recv.all) => recv'.rows = {}]_vars

\* A receive returned nothing for a pet whose message was returned once
\* before and is marked read, while another pet's message is still unread.
C12_Witness ==
    /\ lastCall.op = "receiveMessages"
    /\ recv.rows = {}
    /\ \E i \in 1..Len(messages) :
          /\ messages[i].to_pet_id = lastCall.pet
          /\ messages[i].channel = "direct"
          /\ messages[i].read
          /\ returned[i] = 1
    /\ \E i \in 1..Len(messages) :
          /\ messages[i].to_pet_id # lastCall.pet
          /\ messages[i].channel = "direct"
          /\ ~messages[i].read

BcastStep == lastCall'.op = "getLocationBroadcasts"

\* The broadcasts a call for location loc and excluded pet ex may see: those of
\* the location, not sent by ex, inside the time window.
Visible(msgs, loc, ex) ==
    {i \in 1..Len(msgs) :
        /\ msgs[i].channel = "broadcast"
        /\ msgs[i].location = loc
        /\ msgs[i].from_pet_id # ex
        /\ msgs[i].age = "fresh"}

\* C13 as stated: getLocationBroadcasts never returns a message sent by the
\* excluded pet or a message of another location, sets no read marker and
\* leaves the store unchanged, and a broadcast it returned is returned again
\* by every later call inside its time window.
C13_AlwaysReturnedAgain ==
    [][BcastStep =>
        /\ \A i \in recv'.rows :
              /\ messages[i].from_pet_id # lastCall'.pet
              /\ messages[i].location = lastCall'.arg
        /\ messages' = messages
        /\ \A i \in Visible(messages, lastCall'.arg, lastCall'.pet) :
              (i \in recv.rows /\ recv.limit = recv'.limit) => i \in recv'.rows]_vars

\* C13 as amended: the same, but a broadcast inside its window is returned by
\* a later call only while fewer than limit more recent broadcasts of the
\* location (not sent by the excluded pet) are inside the window; the call
\* returns the limit most recent ones.
C13_ReturnedWithinLimit ==
    [][BcastStep =>
        /\ \A i \in recv'.rows :
              /\ messages[i].from_pet_id # lastCall'.pet
              /\ messages[i].location = lastCall'.arg
              /\ messages[i].channel = "broadcast"
              /\ messages[i].age = "fresh"
        /\ messages' = messages
        /\ \A i \in Visible(messages, lastCall'.arg, lastCall'.pet) :
              \/ i \in recv'.rows
              \/ Cardinality({j \in recv'.rows : j > i}) = recv'.limit]_vars

\* A broadcast was returned for the second time, unread as before, by a call
\* that left out a broadcast of the excluded pet or of another location.
C13_Witness ==
    /\ lastCall.op = "getLocationBroadcasts"
    /\ \E i \in recv.rows : returned[i] = 2 /\ ~messages[i].read
    /\ \E j \in 1..Len(messages) :
          /\ messages[j].channel = "broadcast"
          /\ messages[j].age = "fresh"
          /\ j \notin recv.rows
          /\ messages[j].from_pet_id = lastCall.pet \/ messages[j].location # lastCall.arg

-----------------------------------------------------------------------------
(* memory: compressMemory *)

\* The text of memory_summary is kept as its lines, oldest first, joined by
\* "\n". Of each line the model keeps the day whose daily line it is (or was),
\* its length, whether it still holds the whole marker "[day]", and the number
\* of characters in front of the marker.
Days == 1..MaxDays

\* The pets whose memory is compressed.
MemPets == 1..MaxMemPets

\* Lengths of the text after the marker that the activity counts and the
\* names of the pets met can give.
ContentLens == {7, 240, 490}

LineLens == {MARKER_LEN + c : c \in ContentLens}

\* No counted activity type among the rows: dailyLines is empty.
NoDailyLine == 0

RECURSIVE SumLen(_)
SumLen(lines) == IF lines = <<>> THEN 0 ELSE lines[1].len + SumLen(Tail(lines))

\* newSummary.length
SummaryLength(lines) ==
    IF lines = <<>> THEN 0 ELSE SumLen(lines) + Len(lines) - 1

\* slice(-n) as the removal of the first d characters.
RECURSIVE DropFront(_, _)
DropFront(lines, d) ==
    LET h == lines[1] IN
    IF d > h.len /\ Len(lines) > 1 THEN DropFront(Tail(lines), d - h.len - 1)
    ELSE LET kept == h.marked /\ d <= h.pre
         IN  <<[day |-> h.day, len |-> h.len - d, marked |-> kept,
                pre |-> IF kept THEN h.pre - d ELSE 0]>> \o Tail(lines)

\* "..." + text
WithEllipsis(lines) ==
    [lines EXCEPT ![1].len = @ + ELLIPSIS_LEN,
                  ![1].pre = IF lines[1].marked THEN @ + ELLIPSIS_LEN ELSE @]

\* compressMemory keeping the last 500 characters behind the "...".
Truncate_keep500(lines) ==
    IF SummaryLength(lines) > SUMMARY_BUDGET
    THEN WithEllipsis(DropFront(lines, SummaryLength(lines) - SUMMARY_BUDGET))
    ELSE lines

\* if (newSummary.length > 500) newSummary = "..." + newSummary.slice(-497)
Truncate(lines) ==
    IF SummaryLength(lines) > SUMMARY_BUDGET
    THEN WithEllipsis(DropFront(lines, SummaryLength(lines) - SUMMARY_KEEP))
    ELSE lines

\* existingSummary.includes(`[${today}]`)
HasMarker(lines, day) == \E i \in 1..Len(lines) : lines[i].marked /\ lines[i].day = day

\* existingSummary.replace(new RegExp(`\\[${today}\\].*`), addition): the first
\* match, from the marker to the end of its line.
ReplaceLine(lines, day, n) ==
    LET i == CHOOSE j \in 1..Len(lines) :
                 /\ lines[j].marked /\ lines[j].day = day
                 /\ \A k \in 1..(j - 1) : ~(lines[k].marked /\ lines[k].day = day)
    IN  [lines EXCEPT ![i].len = lines[i].pre + n]

\* The summary compressMemory stores, for the daily line of length n.
compressMemory(lines, day, n) ==
    Truncate(IF n = NoDailyLine THEN lines
             ELSE IF ~HasMarker(lines, day)
                  THEN Append(lines, [day |-> day, len |-> n, marked |-> TRUE, pre |-> 0])
                  ELSE ReplaceLine(lines, day, n))

MemCall(op, p) == [op |-> op, pet |-> p, arg |-> "none", ok |-> TRUE, reason |-> "none"]

\* A row is added to pet_activity_log for pet p: the last 50 rows give another
\* daily line.
LogActivity(p, n) ==
    /\ logLine[p] # n
    /\ logLine' = [logLine EXCEPT ![p] = n]
    /\ lastCall' = MemCall("logActivity", p)
    /\ UNCHANGED <<memory_summary, today, soulVars, filterVars, lateVars, busVars, schedVars, gateVars, pet_state,
                   activityLog, tickVars>>

CompressMemory(p) ==
    /\ logLine[p] # NoRows
    /\ memory_summary' =
          [memory_summary EXCEPT ![p] = compressMemory(memory_summary[p], today, logLine[p])]
    /\ lastCall' = MemCall("compressMemory", p)
    /\ UNCHANGED <<logLine, today, soulVars, filterVars, lateVars, busVars, schedVars, gateVars, pet_state, activityLog,
                   tickVars>>

\* Midnight (UTC) passes.
NextDay ==
    /\ today < MaxDays
    /\ today' = today + 1
    /\ lastCall' = MemCall("nextDay", 0)
    /\ UNCHANGED <<memory_summary, logLine, soulVars, filterVars, lateVars, busVars, schedVars, gateVars, pet_state,
                   activityLog, tickVars>>

MemInit ==
    /\ SchedIdle
    /\ ExtIdle
    /\ GateIdle
    /\ WorldEmpty
    /\ TickIdle

MemNext ==
    \/ \E p \in MemPets, n \in LineLens \cup {NoDailyLine} : LogActivity(p, n)
    \/ \E p \in MemPets : CompressMemory(p)
    \/ NextDay

MemSpec == MemInit /\ [][MemNext]_vars

-----------------------------------------------------------------------------
(* Claims about compressMemory *)

\* C14: after any number of compressMemory calls interleaved with activity-log
\* appends, the stored summary of every pet is at most 500 characters long.
C14_SummaryWithinBudget ==
    \A p \in Pets : SummaryLength(memory_summary[p]) <= SUMMARY_BUDGET

\* A compressMemory call cut the summary from the front: it is exactly 500
\* characters long and begins with the rest of a line behind the "...".
C14_Witness ==
    /\ lastCall.op = "compressMemory"
    /\ SummaryLength(memory_summary[lastCall.pet]) = SUMMARY_BUDGET
    /\ ~memory_summary[lastCall.pet][1].marked
    /\ Len(memory_summary[lastCall.pet]) > 1

\* C15: after any number of compressMemory calls on one day, with any activity
\* in between and also when the summary was cut to its budget, the stored
\* summary holds at most one line for that day.
C15_OneLinePerDay ==
    \A p \in Pets, d \in Days :
        Cardinality({i \in 1..Len(memory_summary[p]) : memory_summary[p][i].day = d}) <= 1

-----------------------------------------------------------------------------
(* soul: generateSoul and evolveSoul *)

Min(a, b) == IF a < b THEN a ELSE b

Max(a, b) == IF a > b THEN a ELSE b

\* The action types the rules of evolveSoul read, and one they do not.
ActionTypes ==
    {"social_chat_init", "social_chat_reply", "explore_room", "go_to_plaza", "play",
     "became_friends", "go_home", "autonomous_v2"}

NoRowsWeek ==
    [social_chat_init |-> 0, social_chat_reply |-> 0, explore_room |-> 0, go_to_plaza |-> 0,
     play |-> 0, became_friends |-> 0, go_home |-> 0, autonomous_v2 |-> 0]

\* The rows of the last 7 days, counted by action_type.
Weeks ==
    {NoRowsWeek,
     [NoRowsWeek EXCEPT !.social_chat_init = 3, !.social_chat_reply = 2],
     [NoRowsWeek EXCEPT !.social_chat_init = 6],
     [NoRowsWeek EXCEPT !.social_chat_init = 6, !.autonomous_v2 = 9],
     [NoRowsWeek EXCEPT !.social_chat_init = 5, !.explore_room = 4, !.go_home = 8],
     [NoRowsWeek EXCEPT !.social_chat_init = 2, !.play = 6, !.became_friends = 1,
                        !.go_to_plaza = 4]}

\* activityNames[top], "none" for a type without a name
activityNames(type) ==
    CASE type = "play" -> "play_name"
      [] type = "explore_room" -> "explore_name"
      [] type = "social_chat_init" -> "chat_name"
      [] OTHER -> "none"

\* The types that activities.sort((a, b) => b.cnt - a.cnt) may put first: the
\* order of equal counts is the order of the GROUP BY rows.
TopTypes(actMap) ==
    {t \in ActionTypes : actMap[t] > 0 /\ \A u \in ActionTypes : actMap[u] <= actMap[t]}

\* likes.slice(-4)
Last4(likes) ==
    IF Len(likes) <= 4 THEN likes ELSE SubSeq(likes, Len(likes) - 3, Len(likes))

InSeq(x, seq) == \E i \in 1..Len(seq) : seq[i] = x

\* generateSoul(): rand(min, max) of each trait, here at an end of its range
\* (sociability also at 50).
GeneratedSouls ==
    {[SoulAtMax EXCEPT !.traits = t] :
        t \in [curiosity : {40, 90}, playfulness : {90}, sociability : {30, 50, 85},
               independence : {70}, emotionality : {90}, gentleness : {40, 85}]}

\* The changes a run of evolveSoul collects from the counts of the week.
changesOf(actMap) ==
    LET social == actMap.social_chat_init + actMap.social_chat_reply
        explore == actMap.explore_room + actMap.go_to_plaza
    IN  (IF social > 5 THEN {"sociability+3"} ELSE IF social = 0 THEN {"sociability-1"} ELSE {})
            \cup (IF explore > 3 THEN {"curiosity+2"} ELSE {})
            \cup (IF actMap.play > 5 THEN {"playfulness+2"} ELSE {})
            \cup (IF actMap.became_friends > 0 THEN {"gentleness+2"} ELSE {})

\* The entry of a run written over the last entry of the log.
pushEvolution_overLast(log, changes) ==
    [log EXCEPT ![Len(log)] = [change |-> changes]]

\* soul.evolutionLog.push({ date, change: changes.join(", "), reason })
pushEvolution(log, changes) == Append(log, [change |-> changes])

\* evolveSoul without Math.min(100, ...) on sociability.
evolveSoul_noClamp(soul, actMap, top) ==
    LET social == actMap.social_chat_init + actMap.social_chat_reply
        explore == actMap.explore_room + actMap.go_to_plaza
        t0 == soul.traits
        t1 == IF social > 5 THEN [t0 EXCEPT !.sociability = @ + 3]
              ELSE IF social = 0 THEN [t0 EXCEPT !.sociability = Max(0, @ - 1)]
              ELSE t0
        t2 == IF explore > 3 THEN [t1 EXCEPT !.curiosity = Min(100, @ + 2)] ELSE t1
        t3 == IF actMap.play > 5 THEN [t2 EXCEPT !.playfulness = Min(100, @ + 2)] ELSE t2
        t4 == IF actMap.became_friends > 0 THEN [t3 EXCEPT !.gentleness = Min(100, @ + 2)]
              ELSE t3
        changes == changesOf(actMap)
        name == IF top = "none" THEN "none" ELSE activityNames(top)
        likes == IF name # "none" /\ ~InSeq(name, soul.likes)
                 THEN Append(Last4(soul.likes), name) ELSE soul.likes
        place == IF actMap.go_to_plaza > actMap.go_home + 3 THEN "hub"
                 ELSE IF actMap.go_home > actMap.go_to_plaza + 3 THEN "pod"
                 ELSE soul.favoritePlace
    IN  IF changes # {}
        THEN [version |-> soul.version + 1, traits |-> t4, likes |-> likes,
              favoritePlace |-> place,
              evolutionLog |-> pushEvolution(soul.evolutionLog, changes)]
        ELSE soul

\* evolveSoul(petId): the PetSoul stored after the run, for the counts of the
\* week and the type sorted first ("none" without rows).
evolveSoul(soul, actMap, top) ==
    LET social == actMap.social_chat_init + actMap.social_chat_reply
        explore == actMap.explore_room + actMap.go_to_plaza
        t0 == soul.traits
        t1 == IF social > 5 THEN [t0 EXCEPT !.sociability = Min(100, @ + 3)]
              ELSE IF social = 0 THEN [t0 EXCEPT !.sociability = Max(0, @ - 1)]
              ELSE t0
        t2 == IF explore > 3 THEN [t1 EXCEPT !.curiosity = Min(100, @ + 2)] ELSE t1
        t3 == IF actMap.play > 5 THEN [t2 EXCEPT !.playfulness = Min(100, @ + 2)] ELSE t2
        t4 == IF actMap.became_friends > 0 THEN [t3 EXCEPT !.gentleness = Min(100, @ + 2)]
              ELSE t3
        changes == changesOf(actMap)
        name == IF top = "none" THEN "none" ELSE activityNames(top)
        likes == IF name # "none" /\ ~InSeq(name, soul.likes)
                 THEN Append(Last4(soul.likes), name) ELSE soul.likes
        place == IF actMap.go_to_plaza > actMap.go_home + 3 THEN "hub"
                 ELSE IF actMap.go_home > actMap.go_to_plaza + 3 THEN "pod"
                 ELSE soul.favoritePlace
    IN  IF changes # {}
        THEN [version |-> soul.version + 1, traits |-> t4, likes |-> likes,
              favoritePlace |-> place,
              evolutionLog |-> pushEvolution(soul.evolutionLog, changes)]
        ELSE soul

EvolveSoul(actMap, top) ==
    /\ soul_json.version < MaxVersion
    /\ top \in (IF TopTypes(actMap) = {} THEN {"none"} ELSE TopTypes(actMap))
    /\ soul_json' = evolveSoul(soul_json, actMap, top)
    /\ socialCount' = actMap.social_chat_init + actMap.social_chat_reply
    /\ lastCall' = [op |-> "evolveSoul", pet |-> 1,
                    arg |-> IF top = "none" THEN "none" ELSE activityNames(top),
                    ok |-> TRUE, reason |-> "none"]
    /\ UNCHANGED <<busVars, memVars, filterVars, lateVars, schedVars, gateVars, pet_state, activityLog,
                   tickVars>>

SoulInit ==
    /\ SchedIdle
    /\ BusIdle
    /\ MemIdle
    /\ GateIdle
    /\ WorldEmpty
    /\ TickIdle
    /\ FilterIdle
    /\ LateIdle
    /\ soul_json \in GeneratedSouls
    /\ socialCount = 0

SoulNext == \E actMap \in Weeks, top \in ActionTypes \cup {"none"} : EvolveSoul(actMap, top)

SoulSpec == SoulInit /\ [][SoulNext]_vars

-----------------------------------------------------------------------------
(* soul: the claims about evolveSoul *)

TraitNames ==
    {"curiosity", "playfulness", "sociability", "independence", "emotionality", "gentleness"}

\* A step that is one run of evolveSoul.
EvolveStep == lastCall'.op = "evolveSoul"

\* C16: a run of evolveSoul raises sociability by 3 (clamped to 0..100) whenever
\* the week holds at least 5 social entries, lowers it by 1 when it holds none,
\* and leaves it unchanged otherwise; from 50 with 6 entries the result is 53,
\* one evolution-log entry is appended and version grows by 1.
C16_SociabilityAtLeastFive ==
    [][EvolveStep =>
        /\ socialCount' >= 5 =>
              soul_json'.traits.sociability = Min(100, soul_json.traits.sociability + 3)
        /\ socialCount' = 0 =>
              soul_json'.traits.sociability = Max(0, soul_json.traits.sociability - 1)
        /\ socialCount' \in 1..4 =>
              soul_json'.traits.sociability = soul_json.traits.sociability
        /\ (socialCount' = 6 /\ soul_json.traits.sociability = 50) =>
              /\ soul_json'.traits.sociability = 53
              /\ Len(soul_json'.evolutionLog) = Len(soul_json.evolutionLog) + 1
              /\ soul_json'.version = soul_json.version + 1]_vars

\* C17: a run of evolveSoul increments version by exactly 1 if and only if a
\* trait value, the likes or the favorite place of the stored soul differs
\* after the run, and leaves version unchanged otherwise.
C17_VersionIffChanged ==
    [][EvolveStep =>
        /\ soul_json'.version \in {soul_json.version, soul_json.version + 1}
        /\ soul_json'.version = soul_json.version + 1 <=>
              \/ soul_json'.traits # soul_json.traits
              \/ soul_json'.likes # soul_json.likes
              \/ soul_json'.favoritePlace # soul_json.favoritePlace]_vars

Abs(x) == IF x < 0 THEN -x ELSE x

\* C18: from a generated soul, after any sequence of runs of evolveSoul every
\* trait lies in 0..100, and one run changes each trait by at most 3.
C18_TraitsBounded ==
    /\ [](\A t \in TraitNames : soul_json.traits[t] \in 0..100)
    /\ [][EvolveStep =>
            \A t \in TraitNames : Abs(soul_json'.traits[t] - soul_json.traits[t]) <= 3]_vars

\* A run with more than 5 social entries has left sociability at the clamp.
C18_Witness ==
    /\ lastCall.op = "evolveSoul"
    /\ socialCount > 5
    /\ soul_json.traits.sociability = 100
    /\ soul_json.version > 1

-----------------------------------------------------------------------------
(* safety-guard: filterAwakening, filterWorldview, safetyFilter *)

\* A text is a sequence of atoms. An atom is a piece of a text that the rows
\* below match as a whole or not at all: a letter where two rows overlap in
\* that letter, a longer piece elsewhere.
\* SELECT name FROM pets
knownNames == {"Pixel"}

\* The proper names a reply may mention: a pet of the registry and a name that
\* no pet has.
ProperNames == knownNames \cup {"Nova"}

Atoms ==
    {"wo shi A", "I", "i", "'m an A", "wo shi", "chengxu", "yuan", "da", "yuyan moxing",
     "diannao", "bijiben", "shouji", "x"} \cup ProperNames

Texts == UNION {[1..n -> Atoms] : n \in 0..MaxTextLen}

\* The i flag: the letter that is an atom of its own, folded.
Canonicalize(atom, ignoreCase) == IF ignoreCase /\ atom = "I" THEN "i" ELSE atom

\* Rows of AWAKENESS_PATTERNS, in the order of the table (flags gi):
\* /wo shi AI/, /wo shi chengxu/, /da yuyan moxing/, /yuyan moxing/, /I'm an AI/.
AWAKENESS_PATTERNS ==
    << [pattern |-> <<"wo shi A", "i">>, ignoreCase |-> TRUE,
        replacement |-> <<"wo shi yige Pix">>],
       [pattern |-> <<"wo shi", "chengxu">>, ignoreCase |-> TRUE,
        replacement |-> <<"wo shi yige Pix">>],
       [pattern |-> <<"da", "yuyan moxing">>, ignoreCase |-> TRUE,
        replacement |-> <<"siwei fangshi">>],
       [pattern |-> <<"yuyan moxing">>, ignoreCase |-> TRUE,
        replacement |-> <<"siwei">>],
       [pattern |-> <<"i", "'m an A", "i">>, ignoreCase |-> TRUE,
        replacement |-> <<"I", "'m a Pix">>] >>

\* Rows of WORLDVIEW_REPLACEMENTS, in the order of the table (flag g):
\* /shouji/, /diannao/, /bijiben diannao/, /chengxuyuan/.
WORLDVIEW_REPLACEMENTS ==
    << [pattern |-> <<"shouji">>, ignoreCase |-> FALSE,
        replacement |-> <<"tongxun shuijing">>],
       [pattern |-> <<"diannao">>, ignoreCase |-> FALSE,
        replacement |-> <<"sikao shi">>],
       [pattern |-> <<"bijiben", "diannao">>, ignoreCase |-> FALSE,
        replacement |-> <<"sikao shi">>],
       [pattern |-> <<"chengxu", "yuan">>, ignoreCase |-> FALSE,
        replacement |-> <<"chuangzao zhe">>] >>

\* The pattern of row matches t at position i.
MatchAt(t, i, row) ==
    /\ i + Len(row.pattern) - 1 <= Len(t)
    /\ \A j \in 1..Len(row.pattern) :
          Canonicalize(t[i + j - 1], row.ignoreCase) = row.pattern[j]

Matches(t, row) == \E i \in 1..Len(t) : MatchAt(t, i, row)

RECURSIVE replaceFrom(_, _, _)

\* String.prototype.replace with a g pattern, from position i on: the matches
\* are taken leftmost first and do not overlap; the result is not rescanned.
replaceFrom(t, i, row) ==
    IF i > Len(t) THEN <<>>
    ELSE IF MatchAt(t, i, row)
         THEN row.replacement \o replaceFrom(t, i + Len(row.pattern), row)
         ELSE <<t[i]>> \o replaceFrom(t, i + 1, row)

RECURSIVE replaceFirstFrom(_, _, _)

replaceFirstFrom(t, i, row) ==
    IF i > Len(t) THEN <<>>
    ELSE IF MatchAt(t, i, row)
         THEN row.replacement \o SubSeq(t, i + Len(row.pattern), Len(t))
         ELSE <<t[i]>> \o replaceFirstFrom(t, i + 1, row)

\* text.replace(pattern, replacement) without the g flag.
replace_first(t, row) == replaceFirstFrom(t, 1, row)

\* text.replace(pattern, replacement)
replace(t, row) == replaceFrom(t, 1, row)

RECURSIVE filterTable(_, _, _)

\* for (const [pattern, replacement] of table) text = text.replace(...)
filterTable(t, table, k) ==
    IF k > Len(table) THEN t ELSE filterTable(replace(t, table[k]), table, k + 1)

filterAwakening(t) == filterTable(t, AWAKENESS_PATTERNS, 1)

\* filterHallucination reads the pet names and returns the text as it is.
filterHallucination(t) == t

filterWorldview(t) == filterTable(t, WORLDVIEW_REPLACEMENTS, 1)

\* safetyFilter without the worldview guard.
safetyFilter_noWorldview(t) == filterHallucination(filterAwakening(t))

safetyFilter(t) == filterWorldview(filterHallucination(filterAwakening(t)))

\* An LLM reply goes through safetyFilter.
SafetyFilter ==
    /\ ~filtered.done
    /\ filtered' = [done |-> TRUE, out |-> safetyFilter(text)]
    /\ UNCHANGED <<text, busVars, memVars, soulVars, lateVars, schedVars, gateVars, worldVars, tickVars>>

\* A filtered text goes through safetyFilter once more.
FilterAgain ==
    /\ filtered.done
    /\ text' = filtered.out
    /\ filtered' = [done |-> TRUE, out |-> safetyFilter(filtered.out)]
    /\ UNCHANGED <<busVars, memVars, soulVars, lateVars, schedVars, gateVars, worldVars, tickVars>>

FilterInit ==
    /\ SchedIdle
    /\ BusIdle
    /\ MemIdle
    /\ SoulIdle
    /\ GateIdle
    /\ WorldEmpty
    /\ TickIdle
    /\ LateIdle
    /\ text \in Texts
    /\ filtered = Unfiltered

FilterNext == SafetyFilter \/ FilterAgain

FilterSpec == FilterInit /\ [][FilterNext]_vars

-----------------------------------------------------------------------------
(* safety-guard: the claims about safetyFilter *)

\* Some row of either table matches somewhere in t.
MatchesAnyPattern(t) ==
    \/ \E k \in 1..Len(AWAKENESS_PATTERNS) : Matches(t, AWAKENESS_PATTERNS[k])
    \/ \E k \in 1..Len(WORLDVIEW_REPLACEMENTS) : Matches(t, WORLDVIEW_REPLACEMENTS[k])

MentionsUnknownName(t) == \E i \in 1..Len(t) : t[i] \in ProperNames \ knownNames

\* C21: when the text mentions a proper name that is not in the registry of
\* known pets, the filtered text does not contain that name, while the names
\* of known pets are kept.
C21_FabricatedNameRemoved ==
    filtered.done =>
        /\ ~MentionsUnknownName(filtered.out)
        /\ \A n \in knownNames :
              (\E i \in 1..Len(text) : text[i] = n) =>
                  \E j \in 1..Len(filtered.out) : filtered.out[j] = n

-----------------------------------------------------------------------------
(* autonomous-v2: executeResponse, the parse of the filtered text *)

\* The tags of the five forms, in the order executeResponse tries them.
Tags == <<"[speak]", "[go]", "[broadcast]", "[act]", "[thought]">>

FormOf(tag) ==
    CASE tag = "[speak]" -> "speak"
      [] tag = "[go]" -> "go"
      [] tag = "[broadcast]" -> "broadcast"
      [] tag = "[act]" -> "action"
      [] OTHER -> "thought"

\* A response is a sequence of atoms: a tag, a colon, a line break, or a word
\* that is the name of no pet and no location.
RespAtoms == {Tags[i] : i \in 1..Len(Tags)} \cup {":", "nl", "w"}

ResponseTexts == UNION {[1..n -> RespAtoms] : n \in 0..MaxRespLen}

\* \s matches the line break; . matches every atom but the line break.
IsSpace(atom) == atom = "nl"

IsDot(atom) == atom # "nl"

\* /tag\s*(.+)/ matches with the tag at position i.
TagMatchAt(t, i, tag) ==
    /\ t[i] = tag
    /\ \E j \in (i + 1)..Len(t) :
          /\ \A m \in (i + 1)..(j - 1) : IsSpace(t[m])
          /\ IsDot(t[j])

TagMatch(t, tag) == \E i \in 1..Len(t) : TagMatchAt(t, i, tag)

\* /\[speak\]\s*(.+?)[colon]\s*(.+)/ matches somewhere in t.
talkMatch(t) ==
    \E i \in 1..Len(t) :
        /\ t[i] = "[speak]"
        /\ \E a \in (i + 1)..Len(t), c \in (i + 2)..Len(t), d \in (i + 3)..Len(t) :
              /\ a < c /\ c < d
              /\ \A m \in (i + 1)..(a - 1) : IsSpace(t[m])
              /\ \A m \in a..(c - 1) : IsDot(t[m])
              /\ t[c] = ":"
              /\ \A m \in (c + 1)..(d - 1) : IsSpace(t[m])
              /\ IsDot(t[d])

\* The pattern of the k-th form matches.
FormMatches(t, k) == IF k = 1 THEN talkMatch(t) ELSE TagMatch(t, Tags[k])

TagOccurs(t, k) == \E i \in 1..Len(t) : t[i] = Tags[k]

RECURSIVE firstTagFrom(_, _)

firstTagFrom(t, i) ==
    IF i > Len(t) THEN "free"
    ELSE IF \E k \in 1..Len(Tags) : t[i] = Tags[k] /\ FormMatches(t, k)
         THEN FormOf(t[i])
         ELSE firstTagFrom(t, i + 1)

\* The form of the tag that stands first in the text.
executeResponse_textOrder(t) == firstTagFrom(t, 1)

\* executeResponse(petId, response): the branch that runs.
executeResponse(t) ==
    IF talkMatch(t) THEN "speak"
    ELSE IF TagMatch(t, "[go]") THEN "go"
    ELSE IF TagMatch(t, "[broadcast]") THEN "broadcast"
    ELSE IF TagMatch(t, "[act]") THEN "action"
    ELSE IF TagMatch(t, "[thought]") THEN "thought"
    ELSE "free"

\* The pet whose response is executed.
Actor == 1

\* executeResponse runs on a response whose words name no pet and no place:
\* talkToPet and goTo return ok: false and write nothing, broadcast stores a
\* message, the other forms call updateAction and logActivity.
ExecuteResponse ==
    LET form == executeResponse(response) IN
    /\ ~recognised.done
    /\ recognised' = [done |-> TRUE, form |-> form]
    /\ pet_state' = IF form \in {"speak", "go"} THEN pet_state
                    ELSE updateAction(pet_state, Actor,
                                      IF form = "broadcast" THEN "said" ELSE form)
    /\ activityLog' = IF form \in {"action", "thought", "free"}
                      THEN logActivity(activityLog, pet_state, Actor, form)
                      ELSE activityLog
    /\ messages' = IF form = "broadcast"
                   THEN broadcastMessage(messages, Actor, getPetLocationId(pet_state, Actor))
                   ELSE messages
    /\ lastCall' = [op |-> "executeResponse", pet |-> Actor, arg |-> form, ok |-> TRUE,
                    reason |-> "none"]
    /\ UNCHANGED <<response, busVars, memVars, soulVars, filterVars, socialVars, tierVars,
                   ctxVars, statVars, histVars, schedVars, gateVars, petStats, passes, memoryCalls>>

ParseInit ==
    /\ SchedIdle
    /\ BusIdle
    /\ MemIdle
    /\ SoulIdle
    /\ FilterIdle
    /\ GateIdle
    /\ pet_state = [p \in Pets |-> [NoRow EXCEPT !.row = TRUE]]
    /\ activityLog = <<>>
    /\ lastCall = NoCall
    /\ TickIdle
    /\ SocialIdle
    /\ TierIdle
    /\ CtxIdle
    /\ StatIdle
    /\ HistIdle
    /\ response \in ResponseTexts
    /\ recognised = Unrecognised

ParseNext == ExecuteResponse

ParseSpec == ParseInit /\ [][ParseNext]_vars

-----------------------------------------------------------------------------
(* autonomous-v2: failures inside a tick *)

\* A step in which the tick of a pet ends with an error: think() rejects, or
\* the reply awaited inside talkToPet throws.
FailStep == lastCall'.op \in {"thinkFails", "replyFails"}

\* The pass that a step moves.
MovedPass(k) == passes'[k] # passes[k]

\* C23: a failure while one pet's tick is processed never stops the pass: the
\* loop goes on to the next pet of the pass, and after the last pet the pass
\* ends and waits for the next interval.
C23_FailureKeepsPassGoing ==
    [][FailStep =>
        \E k \in PassIds :
            /\ MovedPass(k)
            /\ passes[k].idx = lastCall'.pet
            /\ IF passes[k].idx < NumPets
               THEN passes'[k].pc = "ready" /\ passes'[k].idx = passes[k].idx + 1
               ELSE passes'[k].pc = "idle"]_vars

\* The tick of a pet failed and the pass stands at the next pet.
C23_Witness ==
    /\ lastCall.op \in {"thinkFails", "replyFails"}
    /\ \E k \in PassIds : passes[k].pc = "ready" /\ passes[k].idx = lastCall.pet + 1

ThinkFailStep == lastCall'.op = "thinkFails"

\* C24: when the generation call of a pet's tick fails, the tick is abandoned
\* for that pet: no action is executed, no activity-log entry is written, no
\* request is submitted or invoked again, and the pass leaves the pet, which
\* the next pass evaluates from the gate again.
C24_FailedThinkAbandonsTick ==
    [][ThinkFailStep =>
        /\ pet_state' = pet_state
        /\ activityLog' = activityLog
        /\ messages' = messages
        /\ memoryCalls' = memoryCalls
        /\ queue' = queue
        /\ calls' = calls
        /\ \A id \in ReqIds : reqState'[id] # reqState[id] => reqState'[id] = "failed"
        /\ \A k \in PassIds :
              MovedPass(k) =>
                  /\ passes'[k].pc \in {"ready", "idle"}
                  /\ passes'[k].pc = "ready" => passes'[k].idx > lastCall'.pet]_vars

\* A think() call failed for a pet that has a row, while the log and the
\* message store were not empty.
C24_Witness ==
    /\ lastCall.op = "thinkFails"
    /\ pet_state[lastCall.pet].row
    /\ activityLog # <<>>
    /\ messages # <<>>

-----------------------------------------------------------------------------
(* world-tools: the writes of a speak action *)

\* pet_messages holds a direct message from a to b.
Spoke(msgs, a, b) ==
    \E i \in 1..Len(msgs) :
        /\ msgs[i].channel = "direct"
        /\ msgs[i].from_pet_id = a
        /\ msgs[i].to_pet_id = b

\* C25: the effects of a recognised action are applied all or none; in
\* particular a speak action whose reply generation fails leaves no
\* first-meeting record and no message: when the reply call of a speak action
\* fails, a first-meeting record of the speaker about the target exists only
\* if the speaker's message to the target was stored as well.
C25_SpeakAllOrNone ==
    [][lastCall'.op = "replyFails" =>
        \A k \in PassIds :
            MovedPass(k) =>
                /\ messages' = messages
                /\ social_memory'[passes[k].idx][passes[k].target] > 0
                      => Spoke(messages', passes[k].idx, passes[k].target)]_vars

\* C29: first-meeting framing is one-time: once a first-meeting record of a
\* about b exists, isFirstMeeting(a, b) is false from then on; there is at most
\* one first-meeting record per ordered pair of pets, and a record of a about b
\* exists exactly when one of b about a exists.
C29_FirstMeetingOnce ==
    /\ [](\A a, b \in Pets :
            /\ social_memory[a][b] <= 1
            /\ social_memory[a][b] > 0 <=> social_memory[b][a] > 0)
    /\ [][\A a, b \in Pets :
            ~isFirstMeeting(social_memory, a, b) => ~isFirstMeeting(social_memory', a, b)]_vars

\* Two pets that have met have spoken a second time, the other one first.
C29_Witness ==
    \E a, b \in Pets :
        /\ a # b
        /\ social_memory[a][b] = 1
        /\ Spoke(messages, a, b) /\ Spoke(messages, b, a)
        /\ Cardinality({i \in 1..Len(messages) : messages[i].from_pet_id = a
                                                  /\ messages[i].to_pet_id = b}) >= 2
        /\ lastCall.op = "replyReturns"

\* executeResponse ran a speak action whose target is not near, or a move
\* action whose destination names no connected location.
NoOpStep ==
    /\ lastCall'.op = "thinkReturns"
    /\ lastCall'.reason \in {"NotNearby", "NoSuchWay"}

\* C26: a speak action whose target name matches no other pet at the speaker's
\* location, and a move action whose destination name matches no connected
\* location, are no-ops: no message, no memory record and no location change is
\* written, the current action of every pet is unchanged, and the tick goes on
\* to its autonomous_v2 row and ends.
C26_UnknownNameIsNoOp ==
    [][NoOpStep =>
        /\ messages' = messages
        /\ social_memory' = social_memory
        /\ memoryCalls' = memoryCalls
        /\ pet_state' = pet_state
        /\ Len(activityLog') = Len(activityLog) + 1
        /\ activityLog'[Len(activityLog')].action_type = "autonomous_v2"
        /\ \A k \in PassIds : MovedPass(k) => passes'[k].pc \in {"ready", "idle"}]_vars

\* A pet with a row at a location with another pet named a place that is not
\* connected.
C26_Witness ==
    /\ lastCall.op = "thinkReturns"
    /\ lastCall.reason = "NoSuchWay"
    /\ pet_state[lastCall.pet].row
    /\ getPetsInLocation(pet_state, getPetLocationId(pet_state, lastCall.pet)) # {lastCall.pet}

-----------------------------------------------------------------------------
(* llm-scheduler: selectModel and executeLLMCall *)

Priorities == {"low", "medium", "high", "critical"}

\* MODEL_TIERS
MODEL_TIERS == [lite |-> "nova-lite", pro |-> "nova-pro"]

\* req.model is undefined
NoModel == "undefined"

\* The values of req.model: none, a model outside the tiers, the cheap tier.
ModelOverrides == {NoModel, "custom-model", MODEL_TIERS.lite}

ThinkingRequests == [priority : Priorities, model : ModelOverrides]

\* selectModel sending high to the cheap tier.
selectModel_highLite(priority) ==
    CASE priority = "critical" -> MODEL_TIERS.pro
      [] OTHER -> MODEL_TIERS.lite

\* selectModel(priority)
selectModel(priority) ==
    CASE priority = "critical" -> MODEL_TIERS.pro
      [] priority = "high" -> MODEL_TIERS.pro
      [] priority = "medium" -> MODEL_TIERS.lite
      [] OTHER -> MODEL_TIERS.lite

\* executeLLMCall: const model = req.model || selectModel(req.priority)
executeLLMCall(req) == IF req.model # NoModel THEN req.model ELSE selectModel(req.priority)

\* think(req): the request is queued.
ThinkWithModel(req) ==
    /\ Len(tierQueue) + Len(sentModels) < MaxTierReqs
    /\ tierQueue' = Append(tierQueue, req)
    /\ UNCHANGED <<sentModels, busVars, memVars, soulVars, filterVars, parseVars, socialVars,
                   ctxVars, statVars, histVars, schedVars, gateVars, worldVars, tickVars>>

\* processQueue takes the oldest request and executeLLMCall sends it.
DispatchWithModel ==
    /\ tierQueue # <<>>
    /\ tierQueue' = Tail(tierQueue)
    /\ sentModels' = Append(sentModels, [req |-> Head(tierQueue),
                                         model |-> executeLLMCall(Head(tierQueue))])
    /\ UNCHANGED <<busVars, memVars, soulVars, filterVars, parseVars, socialVars, ctxVars,
                   statVars, histVars, schedVars, gateVars, worldVars, tickVars>>

TierInit ==
    /\ SchedIdle
    /\ ExtIdle
    /\ GateIdle
    /\ WorldEmpty
    /\ TickIdle

TierNext == (\E req \in ThinkingRequests : ThinkWithModel(req)) \/ DispatchWithModel

TierSpec == TierInit /\ [][TierNext]_vars

\* C27: a dispatched request without a model override is sent to the expensive
\* tier exactly when its priority is critical or high and to the cheap tier
\* exactly when it is medium or low; a request with a model override is sent
\* to that model whatever its priority.
C27_TierByPriority ==
    \A i \in 1..Len(sentModels) :
        LET r == sentModels[i].req
            m == sentModels[i].model
        IN  /\ r.model = NoModel =>
                  /\ m = MODEL_TIERS.pro <=> r.priority \in {"critical", "high"}
                  /\ m = MODEL_TIERS.lite <=> r.priority \in {"medium", "low"}
            /\ r.model # NoModel => m = r.model

\* A high request without override and a critical request overridden to the
\* cheap tier have been sent.
C27_Witness ==
    /\ \E i \in 1..Len(sentModels) :
          sentModels[i].req = [priority |-> "high", model |-> NoModel]
    /\ \E i \in 1..Len(sentModels) :
          sentModels[i].req = [priority |-> "critical", model |-> MODEL_TIERS.lite]

-----------------------------------------------------------------------------
(* memory: buildMemoryContext *)

\* An id that no row of the pets table has.
NoPet == 0

\* action_type IN ('social_chat_init', 'social_chat_reply', 'social_chat_react',
\* 'became_friends')
SocialTypes == {"social_chat_init", "social_chat_reply", "social_chat_react", "became_friends"}

RECURSIVE Ascending(_)

\* The ids of S, smallest first: the rows of ORDER BY id DESC after reverse().
Ascending(S) ==
    IF S = {} THEN <<>>
    ELSE LET m == CHOOSE i \in S : \A j \in S : i <= j
         IN  <<m>> \o Ascending(S \ {m})

RECURSIVE Descending(_)

Descending(S) ==
    IF S = {} THEN <<>>
    ELSE LET m == CHOOSE i \in S : \A j \in S : i >= j
         IN  <<m>> \o Descending(S \ {m})

\* The ids of the rows of p in the log, all types or the social ones.
RowsOf(log, p) == {i \in 1..Len(log) : log[i].pet_id = p}

SocialRowsOf(log, p) == {i \in RowsOf(log, p) : log[i].action_type \in SocialTypes}

Section(title, lines) == [title |-> title, lines |-> lines]

OptionalSection(present, title, lines) == IF present THEN <<Section(title, lines)>> ELSE <<>>

\* buildMemoryContext without reverse(): the rows stay newest first.
buildMemoryContext_newestFirst(p, summary, log, fr, insights) ==
    IF p = NoPet THEN <<>>
    ELSE LET recent == MostRecent(RowsOf(log, p), RECENT_LIMIT)
             social == MostRecent(SocialRowsOf(log, p), SOCIAL_LIMIT)
         IN  OptionalSection(summary # <<>>, "memory", <<>>)
                 \o OptionalSection(recent # {}, "recent", Descending(recent))
                 \o OptionalSection(social # {}, "social", Descending(social))
                 \o OptionalSection(fr # {}, "friends", <<>>)
                 \o OptionalSection(insights > 0, "insights", <<>>)
                 \o <<Section("rule", <<>>)>>

\* buildMemoryContext(petId): the sections of the text it returns, each with
\* the ids of the log rows its lines are made of.
buildMemoryContext(p, summary, log, fr, insights) ==
    IF p = NoPet THEN <<>>
    ELSE LET recent == MostRecent(RowsOf(log, p), RECENT_LIMIT)
             social == MostRecent(SocialRowsOf(log, p), SOCIAL_LIMIT)
         IN  OptionalSection(summary # <<>>, "memory", <<>>)
                 \o OptionalSection(recent # {}, "recent", Ascending(recent))
                 \o OptionalSection(social # {}, "social", Ascending(social))
                 \o OptionalSection(fr # {}, "friends", <<>>)
                 \o OptionalSection(insights > 0, "insights", <<>>)
                 \o <<Section("rule", <<>>)>>

CtxCall(op, p) == [op |-> op, pet |-> p, arg |-> "none", ok |-> TRUE, reason |-> "none"]

\* A row is written to pet_activity_log: by pet 1 at any time, by pet 2 as
\* the first row.
CtxLogActivity(p, type) ==
    /\ Len(activityLog) < CtxMaxLog
    /\ p = Actor \/ activityLog = <<>>
    /\ activityLog' = Append(activityLog, LogEntry(p, type, "hub"))
    /\ context' = NoContext
    /\ lastCall' = CtxCall("logActivity", p)
    /\ UNCHANGED <<friends, pet_insights, busVars, memVars, soulVars, filterVars, parseVars,
                   socialVars, tierVars, statVars, histVars, schedVars, gateVars, pet_state, tickVars>>

\* updatePetMemory(petId, summary) as compressMemory calls it.
UpdatePetMemory ==
    /\ memory_summary[Actor] = <<>>
    /\ memory_summary' =
          [memory_summary EXCEPT ![Actor] = compressMemory(<<>>, today,
                                        CHOOSE n \in LineLens : \A m \in LineLens : n <= m)]
    /\ context' = NoContext
    /\ lastCall' = CtxCall("updatePetMemory", Actor)
    /\ UNCHANGED <<friends, pet_insights, logLine, today, busVars, soulVars, filterVars,
                   parseVars, socialVars, tierVars, statVars, histVars, schedVars, gateVars, pet_state,
                   activityLog, tickVars>>

BuildMemoryContext(p) ==
    /\ context' = [done |-> TRUE, pet |-> p,
                   sections |-> buildMemoryContext(p, IF p = NoPet THEN <<>>
                                                      ELSE memory_summary[p],
                                                   activityLog, friends, pet_insights)]
    /\ lastCall' = CtxCall("buildMemoryContext", p)
    /\ UNCHANGED <<friends, pet_insights, busVars, memVars, soulVars, filterVars, parseVars,
                   socialVars, tierVars, statVars, histVars, schedVars, gateVars, pet_state, activityLog,
                   tickVars>>

CtxInit ==
    /\ SchedIdle
    /\ BusIdle
    /\ MemIdle
    /\ SoulIdle
    /\ FilterIdle
    /\ ParseIdle
    /\ SocialIdle
    /\ TierIdle
    /\ StatIdle
    /\ HistIdle
    /\ GateIdle
    /\ WorldEmpty
    /\ TickIdle
    /\ context = NoContext
    /\ friends \in {{}, {2}}
    /\ pet_insights \in {0, 1}

CtxNext ==
    \/ \E p \in {Actor, 2}, type \in {"action", "social_chat_init"} : CtxLogActivity(p, type)
    \/ UpdatePetMemory
    \/ \E p \in {Actor, NoPet} : BuildMemoryContext(p)

CtxSpec == CtxInit /\ [][CtxNext]_vars

\* The place of a section in the fixed order.
SectionRank(title) ==
    CASE title = "memory" -> 1
      [] title = "recent" -> 2
      [] title = "social" -> 3
      [] title = "friends" -> 4
      [] title = "insights" -> 5
      [] OTHER -> 6

InFixedOrder(secs) ==
    \A i, j \in 1..Len(secs) : i < j => SectionRank(secs[i].title) < SectionRank(secs[j].title)

HasSection(secs, title) == \E i \in 1..Len(secs) : secs[i].title = title

\* The lines are the newest n of the ids in S, oldest first.
NewestOldestFirst(lines, S, n) ==
    /\ \A i \in 1..Len(lines) : lines[i] \in S
    /\ \A i, j \in 1..Len(lines) : i < j => lines[i] < lines[j]
    /\ Len(lines) = IF Cardinality(S) < n THEN Cardinality(S) ELSE n
    /\ \A i \in S : (\A j \in 1..Len(lines) : lines[j] # i) =>
          \A j \in 1..Len(lines) : i < lines[j]

\* The sections before the grounding instruction, for the store as it is.
SectionsAsClaimed(secs, p) ==
    /\ InFixedOrder(secs)
    /\ HasSection(secs, "memory") <=> (p # NoPet /\ memory_summary[p] # <<>>)
    /\ \A i \in 1..Len(secs) :
          /\ secs[i].title = "recent" =>
                NewestOldestFirst(secs[i].lines, RowsOf(activityLog, p), RECENT_LIMIT)
          /\ secs[i].title = "social" =>
                NewestOldestFirst(secs[i].lines, SocialRowsOf(activityLog, p), SOCIAL_LIMIT)

GroundingLast(secs) == secs # <<>> /\ secs[Len(secs)].title = "rule"

\* A call of buildMemoryContext changes nothing in the store, and a second
\* call for the same pet returns the same text.
BuildChangesNothing ==
    lastCall'.op = "buildMemoryContext" =>
        /\ UNCHANGED <<activityLog, memory_summary, friends, pet_insights, social_memory,
                       messages, pet_state, petStats>>
        /\ (context.done /\ context.pet = context'.pet) => context' = context

-----------------------------------------------------------------------------
(* pets: the writers of mood, energy, hunger and affection *)

StatNames == {"mood", "energy", "hunger", "affection"}

\* The statChanges of decidePetAction's actions.
StatChanges ==
    {[mood |-> -2, energy |-> 15, hunger |-> 0], [mood |-> -3, energy |-> -2, hunger |-> 0],
     [mood |-> 3, energy |-> 20, hunger |-> 0], [mood |-> 8, energy |-> -5, hunger |-> 3]}

Emotions == {"happy", "sad", "excited", "tired", "loved", "hungry"}

\* The intensity of react_emotionally: Type.Number({ minimum: 1, maximum: 10 })
Intensities == {1, 10}

\* decayStats without MAX(0, ...) and MIN(100, ...).
decayStats_noClamp(row) ==
    [row EXCEPT !.mood = @ - 2, !.energy = @ - 3, !.hunger = @ + 4]

\* decayStats(): UPDATE pets SET mood = MAX(0, mood - 2), ...
decayStats(row) ==
    [row EXCEPT !.mood = Max(0, @ - 2), !.energy = Max(0, @ - 3), !.hunger = Min(100, @ + 4)]

\* POST /api/pet/:petId/feed
feed(row) ==
    [row EXCEPT !.hunger = Max(0, @ - 30), !.mood = Min(100, @ + 5),
                !.energy = Min(100, @ + 10)]

\* POST /api/pet/:petId/play
play(row) ==
    [row EXCEPT !.mood = Min(100, @ + 15), !.energy = Max(0, @ - 10),
                !.affection = Min(100, @ + 5), !.hunger = Min(100, @ + 5)]

\* POST /api/pet/:petId/rest
rest(row) == [row EXCEPT !.energy = Min(100, @ + 30), !.mood = Min(100, @ + 5)]

\* executeAutonomousBehavior: Math.max(0, Math.min(100, pet.x + statChanges.x))
applyStatChanges(row, ch) ==
    [row EXCEPT !.mood = Max(0, Min(100, @ + ch.mood)),
                !.energy = Max(0, Min(100, @ + ch.energy)),
                !.hunger = Max(0, Min(100, @ + ch.hunger))]

\* react_emotionally: delta = Math.floor(intensity * 1.5)
reactEmotionally(row, emotion, intensity) ==
    LET delta == (intensity * 3) \div 2 IN
    CASE emotion = "happy" -> [row EXCEPT !.mood = Min(100, @ + delta)]
      [] emotion = "sad" -> [row EXCEPT !.mood = Max(0, @ - delta)]
      [] emotion = "excited" -> [row EXCEPT !.mood = Min(100, @ + delta),
                                            !.energy = Max(0, @ - (delta \div 2))]
      [] emotion = "tired" -> [row EXCEPT !.energy = Max(0, @ - delta)]
      [] emotion = "loved" -> [row EXCEPT !.affection = Min(100, @ + delta),
                                          !.mood = Min(100, @ + (delta \div 2))]
      [] OTHER -> [row EXCEPT !.hunger = Min(100, @ + delta)]

StatCall(op) == [op |-> op, pet |-> 1, arg |-> "none", ok |-> TRUE, reason |-> "none"]

\* One synchronous writer of the stats runs.
WriteStats(op, row) ==
    /\ statOps < MaxStatOps
    /\ petRow' = row
    /\ statOps' = statOps + 1
    /\ lastCall' = StatCall(op)
    /\ UNCHANGED <<staleRow, busVars, memVars, soulVars, filterVars, parseVars, socialVars,
                   tierVars, ctxVars, histVars, schedVars, gateVars, pet_state, activityLog, tickVars>>

DecayStats == WriteStats("decayStats", decayStats(petRow))

Feed == WriteStats("feed", feed(petRow))

Play == WriteStats("play", play(petRow))

Rest == WriteStats("rest", rest(petRow))

AutonomousBehavior(ch) == WriteStats("autonomous", applyStatChanges(petRow, ch))

ReactEmotionally(emotion, intensity) ==
    WriteStats("react", reactEmotionally(petRow, emotion, intensity))

\* chat() reads the pet, or the social chat reads the pets of the plaza,
\* before the calls it awaits.
ReadBeforeAwait(who) ==
    /\ staleRow[who] = NoStale
    /\ statOps < MaxStatOps
    /\ staleRow' = [staleRow EXCEPT ![who] = IF who = "chat" THEN petRow.affection
                                             ELSE petRow.mood]
    /\ lastCall' = StatCall("read")
    /\ UNCHANGED <<petRow, statOps, busVars, memVars, soulVars, filterVars, parseVars,
                   socialVars, tierVars, ctxVars, histVars, schedVars, gateVars, pet_state,
                   activityLog, tickVars>>

\* agent_end: affection: Math.min(100, (pet.affection || 30) + 1), with the
\* row read before the await.
ChatCompletes ==
    /\ staleRow.chat # NoStale
    /\ statOps < MaxStatOps
    /\ petRow' = [petRow EXCEPT !.affection =
                      Min(100, (IF staleRow.chat = 0 THEN DEFAULT_AFFECTION
                                ELSE staleRow.chat) + 1)]
    /\ staleRow' = [staleRow EXCEPT !.chat = NoStale]
    /\ statOps' = statOps + 1
    /\ lastCall' = StatCall("chat")
    /\ UNCHANGED <<busVars, memVars, soulVars, filterVars, parseVars, socialVars, tierVars,
                   ctxVars, histVars, schedVars, gateVars, pet_state, activityLog, tickVars>>

\* The end of the social chat: mood: Math.min(100, petA.mood + 5), with the
\* row read before the awaits.
SocialChatCompletes ==
    /\ staleRow.social # NoStale
    /\ statOps < MaxStatOps
    /\ petRow' = [petRow EXCEPT !.mood = Min(100, staleRow.social + 5)]
    /\ staleRow' = [staleRow EXCEPT !.social = NoStale]
    /\ statOps' = statOps + 1
    /\ lastCall' = StatCall("social")
    /\ UNCHANGED <<busVars, memVars, soulVars, filterVars, parseVars, socialVars, tierVars,
                   ctxVars, histVars, schedVars, gateVars, pet_state, activityLog, tickVars>>

\* A new pet, a pet that decayed to the limits, and a pet at the other limits.
StatRowsInit ==
    {DefaultRow,
     [mood |-> 0, energy |-> 0, hunger |-> 100, affection |-> DEFAULT_AFFECTION],
     [mood |-> 100, energy |-> 100, hunger |-> 0, affection |-> 100]}

StatInit ==
    /\ SchedIdle
    /\ BusIdle
    /\ MemIdle
    /\ SoulIdle
    /\ FilterIdle
    /\ ParseIdle
    /\ SocialIdle
    /\ TierIdle
    /\ CtxIdle
    /\ HistIdle
    /\ GateIdle
    /\ WorldEmpty
    /\ TickIdle
    /\ petRow \in StatRowsInit
    /\ staleRow = [chat |-> NoStale, social |-> NoStale]
    /\ statOps = 0

StatNext ==
    \/ DecayStats
    \/ Feed
    \/ Play
    \/ Rest
    \/ \E ch \in StatChanges : AutonomousBehavior(ch)
    \/ \E emotion \in Emotions, intensity \in Intensities : ReactEmotionally(emotion, intensity)
    \/ \E who \in {"chat", "social"} : ReadBeforeAwait(who)
    \/ ChatCompletes
    \/ SocialChatCompletes

StatSpec == StatInit /\ [][StatNext]_vars

\* C30: after any sequence and interleaving of the operations that write the
\* stats (decay, feed, play, rest, autonomous actions, emotional reactions and
\* chat completions), mood, energy, hunger and affection lie in 0..100.
C30_StatsInRange == \A n \in StatNames : petRow[n] \in 0..100

\* A write with a row read before an await has met stats at their limits.
C30_Witness ==
    /\ lastCall.op \in {"chat", "social"}
    /\ petRow.mood = 100
    /\ petRow.hunger = 0
    /\ statOps >= 2

-----------------------------------------------------------------------------
(* autonomous-v2: the trace of a tick *)

\* A step that ends a tick whose generation call returned a result.
TickEndsAfterResult(k) ==
    /\ MovedPass(k)
    /\ passes[k].pc \in {"thinking", "replying"}
    /\ passes'[k].pc \notin {"thinking", "replying"}
    /\ lastCall'.op \in {"thinkReturns", "replyReturns", "replyFails"}

\* Rows of pet p appended to pet_activity_log by a step.
AppendedFor(p) ==
    {i \in (Len(activityLog) + 1)..Len(activityLog') : activityLog'[i].pet_id = p}

\* C31: every tick whose generation call returned a result appends at least
\* one activity-log entry for its pet before it ends, whatever form was
\* recognised and whether the action succeeded, was a no-op or raised an error.
C31_SuccessfulTickLeavesTrace ==
    [][\A k \in PassIds : TickEndsAfterResult(k) => AppendedFor(passes[k].idx) # {}]_vars

-----------------------------------------------------------------------------
(* llm-scheduler: the life of a request *)

\* The states a request may enter from state s in one step. think() runs
\* processQueue() before it returns, so a submitted request is queued or
\* already dispatched when the step ends.
MayFollow(s) ==
    CASE s = "none" -> {"queued", "dispatched"}
      [] s = "queued" -> {"dispatched"}
      [] s = "dispatched" -> Terminal
      [] OTHER -> {}

\* The requests that a step dispatches, and those whose call it settles.
NewlyDispatched == {i \in ReqIds : reqState[i] # "dispatched" /\ reqState'[i] = "dispatched"}

NewlySettled == {i \in ReqIds : reqState[i] = "dispatched" /\ reqState'[i] \in Terminal}

\* C32: each request moves only along queued -> dispatched -> completed |
\* failed: it is never dispatched twice, never returns to the queue, never
\* leaves a terminal state, and the slot taken at dispatch is released exactly
\* once, on completion and on failure alike, so that activeRequests always
\* equals the number of dispatched requests and is 0 when none is in flight.
C32_RequestLifecycle ==
    /\ [](/\ activeRequests = Cardinality(Dispatched)
          /\ \A a, b \in 1..Len(dispatchLog) : a # b => dispatchLog[a] # dispatchLog[b]
          /\ \A i \in ReqIds : reqState[i] = "queued" <=> i \in QueuedIds)
    /\ [][/\ \A i \in ReqIds : reqState'[i] # reqState[i] => reqState'[i] \in MayFollow(reqState[i])
          /\ activeRequests' = activeRequests - Cardinality(NewlySettled)
                                   + Cardinality(NewlyDispatched)]_vars

\* More requests than slots were submitted, one failed and one completed, and
\* with nothing left in flight the counter is back at 0.
C32_Witness ==
    /\ Cardinality(Submitted) > MAX_CONCURRENT
    /\ Submitted = {i \in ReqIds : reqState[i] \in Terminal}
    /\ \E i, j \in ReqIds : reqState[i] = "failed" /\ reqState[j] = "completed"
    /\ activeRequests = 0

-----------------------------------------------------------------------------
(* autonomous-v2: the occupancy stimulus *)

\* A step in which the tick of pet p evaluates the gate.
GateStepOf(p) == lastCall'.op = "tick" /\ lastCall'.pet = p

\* C33: the occupancy stimulus given to the gate is an occupancy change: in a
\* tick of a pet that has ticked before, it is true only when the set of other
\* pets at the pet's location differs from that set at the pet's previous tick.
C33_OccupancyIsChange ==
    [][\A p \in Pets :
          (GateStepOf(p) /\ seenOthers[p] # NoTickYet
               /\ nearbyPetChanged(pet_state, seenOthers, p))
              => otherPetsHere(pet_state, p) # seenOthers[p]]_vars

-----------------------------------------------------------------------------
(* soul: what a run of evolveSoul stores *)

\* The descriptor of the most frequent activity type of the run, "none" when
\* the week has no rows or the type has no descriptor.
TopDescriptor == lastCall'.arg

\* C34: after a run of evolveSoul in which the most frequent activity type of
\* the last 7 days has a descriptor that is not yet in the likes list, the
\* stored soul's likes list contains that descriptor, whether or not a trait
\* changed in the same run.
C34_TopActivityLiked ==
    [][(EvolveStep /\ TopDescriptor # "none" /\ ~InSeq(TopDescriptor, soul_json.likes))
          => InSeq(TopDescriptor, soul_json'.likes)]_vars

\* C35: the evolution log is append-only and version is monotone: after any
\* sequence of runs of evolveSoul from a generated soul, version never
\* decreases, no existing log entry is removed or altered, each run appends at
\* most one entry, and the number of log entries always equals version.
C35_LogAppendOnly ==
    /\ [](Len(soul_json.evolutionLog) = soul_json.version)
    /\ [][/\ soul_json'.version >= soul_json.version
          /\ Len(soul_json'.evolutionLog) \in
                 {Len(soul_json.evolutionLog), Len(soul_json.evolutionLog) + 1}
          /\ SubSeq(soul_json'.evolutionLog, 1, Len(soul_json.evolutionLog))
                 = soul_json.evolutionLog]_vars

\* Runs with and without a change have left a log of several entries behind
\* the entry of generateSoul.
C35_Witness ==
    /\ lastCall.op = "evolveSoul"
    /\ soul_json.version >= 3
    /\ soul_json.evolutionLog[1].change = {"birth"}
    /\ soul_json.evolutionLog[2].change # soul_json.evolutionLog[3].change
    /\ socialCount \in 1..5

-----------------------------------------------------------------------------
(* llm-scheduler: calls that do not return *)

\* A step taken while every worker slot is held and in which no dispatched
\* call returns.
SlotsHeldStep == activeRequests = MAX_CONCURRENT /\ NewlySettled = {}

\* C36: a dispatched call that never returns holds its slot: as long as 10
\* dispatched calls have not returned, every request submitted afterwards is
\* queued and stays queued; it is not dispatched, completed or failed.
C36_HungCallsBlockQueue ==
    [][SlotsHeldStep =>
        /\ NewlyDispatched = {}
        /\ activeRequests' = MAX_CONCURRENT
        /\ \A i \in ReqIds :
              reqState'[i] # reqState[i] => (reqState[i] = "none" /\ reqState'[i] = "queued")
        /\ \A k \in 1..Len(queue) : queue'[k] = queue[k]]_vars

\* Ten calls are out, none has returned, and two requests submitted after
\* them wait in the queue.
C36_Witness ==
    /\ Cardinality(Dispatched) = MAX_CONCURRENT
    /\ Len(queue) = 2
    /\ \A i \in Submitted : reqState[i] \notin Terminal
    /\ Len(dispatchLog) = MAX_CONCURRENT

\* C37: the scheduler is work-conserving: in every state reached after a
\* think() submission or a completion callback has run, a non-empty queue
\* implies that activeRequests equals MAX_CONCURRENT (10); no request waits
\* while a slot is free.
C37_WorkConserving == Len(queue) > 0 => activeRequests = MAX_CONCURRENT

\* A call has returned while requests waited: the freed slot was taken at
\* once by the oldest of them and the other still waits behind full slots.
C37_Witness ==
    /\ Len(queue) = 1
    /\ activeRequests = MAX_CONCURRENT
    /\ Cardinality({i \in ReqIds : reqState[i] \in Terminal}) = 1
    /\ Len(dispatchLog) = MAX_CONCURRENT + 1

-----------------------------------------------------------------------------
(* autonomous-v2: interval callbacks that overlap *)

\* setInterval starts the callback every TICK_INTERVAL whether or not the
\* callback of an earlier interval has returned: the passes that may run at
\* the same time.
OverlapPasses == 1..MaxOverlap

OverlapCaps == [thinks |-> MaxThinks, log |-> MaxLog, msgs |-> MaxMsgs, mem |-> MaxMemCalls]

\* The server with a pet_state row for every pet, all at the hub, and no
\* interval callback running.
OverlapInit ==
    /\ SchedIdle
    /\ ExtIdle
    /\ GateIdle
    /\ pet_state = [p \in Pets |-> [NoRow EXCEPT !.row = TRUE]]
    /\ activityLog = <<>>
    /\ lastCall = NoCall
    /\ petStats = [p \in Pets |-> [energy |-> DEFAULT_ENERGY, hunger |-> DEFAULT_HUNGER]]
    /\ messages = <<>>
    /\ passes = [k \in OverlapPasses |-> NoPass]
    /\ memoryCalls = 0

OverlapNext ==
    \/ \E k \in OverlapPasses : TimerFires(k)
    \/ \E k \in OverlapPasses, draw \in Draws : TickBegin(k, draw, OverlapCaps)
    \/ \E k \in OverlapPasses, resp \in Responses : ThinkReturns(k, resp, OverlapCaps)
    \/ \E k \in OverlapPasses : ThinkFails(k)
    \/ \E k \in OverlapPasses : ReplyReturns(k)
    \/ \E k \in OverlapPasses : ReplyFails(k)
    \/ MemoryCallReturns

OverlapSpec == OverlapInit /\ [][OverlapNext]_vars

\* The passes that stand inside the tick of pet p, at one of its awaits.
TicksInProgress(p) ==
    {k \in DOMAIN passes : passes[k].idx = p /\ passes[k].pc \in {"thinking", "replying"}}

\* C38: at most one tick per pet is in progress at any time: an interval that
\* fires while the previous pass still awaits a generation result does not
\* start a second tick for a pet whose earlier tick has not finished.
C38_OneTickPerPet == \A p \in Pets : Cardinality(TicksInProgress(p)) <= 1

-----------------------------------------------------------------------------
(* autonomous-v2: the inbox of a tick that fails *)

\* C39: no direct message is lost to a failed generation: a direct message
\* fetched by a tick whose generation call then fails is still unread
\* afterwards, so that the inbox read of a later tick returns it.
C39_FailedTickKeepsInbox ==
    [][ThinkFailStep =>
        \A k \in DOMAIN passes :
            MovedPass(k) => \A i \in passes[k].inbox : ~messages'[i].read]_vars

-----------------------------------------------------------------------------
(* locations: who changes a pet's location *)

\* A step that is a successful move of pet p: movePet called directly, or by
\* goTo for a move action of the pet's tick.
SuccessfulMoveOf(p) ==
    /\ lastCall'.pet = p
    /\ \/ lastCall'.op = "movePet" /\ lastCall'.ok
       \/ lastCall'.op = "thinkReturns" /\ lastCall'.arg = "go" /\ lastCall'.reason = "ok"

\* C40: a pet's location in the location graph changes only as the effect of a
\* successful move; every other operation (a failed move, the other actions of
\* a tick, setPetLocation between room and plaza) leaves it unchanged.
C40_OnlyMovesChangeLocation ==
    [][\A p \in Pets :
          getPetLocationId(pet_state', p) # getPetLocationId(pet_state, p)
              => SuccessfulMoveOf(p)]_vars

====
